---- MODULE Spec2Model ----
(***************************************************************************)
(* A model of the repository-analysis cronjob: the orchestrator            *)
(* (handlers/cronjob.py), the SCM provider facade and its two adapters     *)
(* (scm_providers/), and the bounded worker pool (utils/worker_pool.py).   *)
(*                                                                         *)
(* Five specifications share the module:                                   *)
(*   Spec        runs of CronjobAnalyzeHandler.handle against one remote   *)
(*   SpecFilter  _is_applicable_repository as a function of its inputs     *)
(*   SpecNs      SCMProvider.is_namespace_ignored on bounded inputs        *)
(*   SpecPool    run calls on one WorkerPool                               *)
(*   SpecAdapter single calls of the SCM provider methods                  *)
(* Each specification drives its own variables and leaves the others at    *)
(* their initial values.                                                   *)
(***************************************************************************)
EXTENDS Integers, Sequences, FiniteSets, TLC

VARIABLES
    \* ---- the remote (SCM backend) and the local filesystem
    provider,        \* which adapter the handler was constructed with
    repoList,        \* the Repository objects list_repositories yields, in order
    remoteDefault,   \* per repository: HEAD of the default branch on the remote
    remoteBranches,  \* per repository: the analysis branches on the remote (by date)
    remotePRs,       \* per repository: the open pull requests, oldest first
    localDirs,       \* the working directories that exist under working_path
    day,             \* the calendar date datetime.now() reports; it stays the
                     \* same while the invocations run
    \* ---- one invocation of handle per element of Runs
    pc,              \* position of the invocation
    idx,             \* index into repoList of the repository being handled
    localRepo,       \* _handle_repository's local_repo: TRUE once assigned
    activeBranch,    \* date of the branch checked out in the working copy
    lookupFailed,    \* the last branch_exists call swallowed a backend error
    outcome,         \* per invocation and repository: how its iteration ended
    faults,          \* number of failed external operations so far
    \* ---- _is_applicable_repository on its own
    filterInput,     \* the repository, the configuration and the backend's answers
    filterPc,        \* "call" or "returned"
    filterResult,    \* what the call came to
    \* ---- is_namespace_ignored
    nsNamespace,     \* repo.namespace
    nsEntry,         \* the entry of ignored_namespaces the loop is looking at
    nsCount,         \* how many entries the loop has looked at
    nsAnyMatch,      \* some entry looked at equals a segment, ignoring case
    nsPc,            \* "loop" or "returned"
    nsResult,        \* the value returned
    \* ---- WorkerPool
    ctorMaxWorkers,  \* the max_workers argument of the constructor
    cpuCount,        \* what os.cpu_count() returned (0: None)
    maxWorkers,      \* self.max_workers
    semValue,        \* self._semaphore._value
    semWaiters,      \* the semaphore's FIFO queue of waiting tasks
    taskState,       \* per task: "free" (not passed to run yet), "created",
                     \* "waiting" (on the semaphore), "running", "done"
    taskCall,        \* per task: the run call it was passed to (0: none)
    taskOutcome,     \* per task: what the task itself did: "none", "ok", "exc"
    callPc,          \* per run call: "idle", "gathering", "returned", "raised"
    callBase,        \* per run call: the task id before its first task
    callLen,         \* per run call: len(tasks)
    callResults,     \* per run call: the list gather builds
    completions,     \* per run call: its tasks in the order they completed
    \* ---- one call of an SCM provider method on its own
    adProvider,      \* the adapter the method belongs to
    adOp,            \* the method
    adInput,         \* its arguments and what the backend holds and answers
    adPc,            \* "call" or "returned"
    adResult,        \* what the call came to
    \* ---- _clone_repository of two pipelines on one file system
    wdProvider,      \* the adapter that delivered the repositories
    wdRepo,          \* per pipeline: the repository it clones
    wdFs,            \* per working directory path: what is on disk there
    wdPc,            \* per pipeline: its position in _clone_repository
    wdFound          \* per pipeline: what repo_dir.exists() answered

orchVars == <<provider, repoList, remoteDefault, remoteBranches, remotePRs, localDirs,
              day, pc, idx, localRepo, activeBranch, lookupFailed,
              outcome, faults>>
filterVars == <<filterInput, filterPc, filterResult>>
nsVars == <<nsNamespace, nsEntry, nsCount, nsAnyMatch, nsPc, nsResult>>
poolVars == <<ctorMaxWorkers, cpuCount, maxWorkers, semValue, semWaiters, taskState, taskCall, taskOutcome,
              callPc, callBase, callLen, callResults, completions>>
adapterVars == <<adProvider, adOp, adInput, adPc, adResult>>
cloneVars == <<wdProvider, wdRepo, wdFs, wdPc, wdFound>>
vars == <<orchVars, filterVars, nsVars, poolVars, adapterVars, cloneVars>>

----------------------------------------------------------------------------
\* Bounds of the model.

NRepos == 3
MaxFaults == 2

\* positions in the sequence list_repositories yields
Repos == 1..NRepos

\* handle is invoked twice, the second time after the first has ended
Runs == {1, 2}

----------------------------------------------------------------------------
\* Strings are sequences of characters over a small alphabet that has a
\* letter in both cases, a second letter and the path separator.

MaxNsLen == 3
MaxIgnLen == 2
MaxIgnored == 2

Alphabet == {"a", "A", "b", "/"}

StringsUpTo(n) == UNION {[1..k -> Alphabet] : k \in 0..n}

\* str.lower(), one character at a time
LowerChar(c) == IF c = "A" THEN "a" ELSE c

Lower(s) == [k \in 1..Len(s) |-> LowerChar(s[k])]

\* str.split("/"): the pieces between separators, empty pieces included;
\* a string without a separator (the empty string too) is its only piece
RECURSIVE Split(_)
Split(s) ==
    IF \A k \in 1..Len(s) : s[k] # "/"
      THEN <<s>>
      ELSE LET i == CHOOSE k \in 1..Len(s) :
                       s[k] = "/" /\ \A m \in 1..(k - 1) : s[m] # "/"
           IN  <<SubSeq(s, 1, i - 1)>> \o Split(SubSeq(s, i + 1, Len(s)))

\* namespace_parts = repo.namespace.lower().split("/")
NamespacePartsNoLower(namespace) == Split(namespace)

NamespaceParts(namespace) == Split(Lower(namespace))

\* ignored.lower() in namespace_parts
EntryIgnored(ignored, namespace_parts) ==
    \E k \in 1..Len(namespace_parts) : namespace_parts[k] = Lower(ignored)

\* is_namespace_ignored as a whole, for the callers that pass a list
IsNamespaceIgnored(namespace, ignored_namespaces) ==
    \E k \in 1..Len(ignored_namespaces) :
        EntryIgnored(ignored_namespaces[k], NamespaceParts(namespace))

\* What the contract says, stated without split() or lower(): s and t are
\* equal ignoring case, and t is a maximal separator-free piece of namespace.
SameLetter(c, d) == c = d \/ {c, d} = {"a", "A"}

EqualIgnoringCase(s, t) ==
    Len(s) = Len(t) /\ \A k \in 1..Len(s) : SameLetter(s[k], t[k])

MatchesSomeSegment(entry, namespace) ==
    \E i \in 1..(Len(namespace) + 1) :
        \E j \in (i - 1)..Len(namespace) :
            /\ i = 1 \/ namespace[i - 1] = "/"
            /\ j = Len(namespace) \/ namespace[j + 1] = "/"
            /\ \A k \in i..j : namespace[k] # "/"
            /\ EqualIgnoringCase(entry, SubSeq(namespace, i, j))

\* The for loop of is_namespace_ignored, one iteration per step.  The list is
\* an input: each iteration draws the entry the list holds at that position.
NsInit ==
    /\ nsNamespace \in StringsUpTo(MaxNsLen)
    /\ nsEntry = <<>>
    /\ nsCount = 0
    /\ nsAnyMatch = FALSE
    /\ nsPc = "loop"
    /\ nsResult = FALSE

NsParked ==
    /\ nsNamespace = <<>>
    /\ nsEntry = <<>>
    /\ nsCount = 0
    /\ nsAnyMatch = FALSE
    /\ nsPc = "returned"
    /\ nsResult = FALSE

NsIterate ==
    /\ nsPc = "loop"
    /\ nsCount < MaxIgnored
    /\ \E ignored \in StringsUpTo(MaxIgnLen) :
        /\ nsEntry' = ignored
        /\ nsCount' = nsCount + 1
        /\ nsAnyMatch' = (nsAnyMatch \/ MatchesSomeSegment(ignored, nsNamespace))
        /\ IF EntryIgnored(ignored, NamespaceParts(nsNamespace))
             THEN nsPc' = "returned" /\ nsResult' = TRUE
             ELSE nsPc' = "loop" /\ nsResult' = nsResult
    /\ UNCHANGED <<nsNamespace, orchVars, filterVars, poolVars, adapterVars, cloneVars>>

NsExhausted ==
    /\ nsPc = "loop"
    /\ nsPc' = "returned"
    /\ nsResult' = FALSE
    /\ UNCHANGED <<nsNamespace, nsEntry, nsCount, nsAnyMatch, orchVars, filterVars, poolVars, adapterVars, cloneVars>>

----------------------------------------------------------------------------
\* The SCM provider adapters, as functions of the remote's state and of
\* whether the backend call they make succeeds.

Providers == {"gitlab", "bitbucket_server"}

\* A branch name is the analysis prefix, a date and whatever follows it.
\* _get_branch_name: "ai-analyzer-" + today's date, nothing after it.
GetBranchName(today) == [date |-> today, suffix |-> ""]

\* name occurs in branch (the backends' search and filter parameters)
ContainsName(branch, name) ==
    branch.date = name.date /\ (name.suffix = "" \/ name.suffix = branch.suffix)

\* GitLabProvider.branch_exists: bool(project.branches.list(search=name));
\* a backend error propagates
GitLabBranchExists(branches, name, backendOk) ==
    IF ~backendOk THEN "raise"
    ELSE IF \E b \in branches : ContainsName(b, name) THEN "true"
    ELSE "false"

\* BitbucketServerProvider.branch_exists: some branch the filter returns has
\* displayId == name; any exception of the backend call becomes False
BitbucketBranchExists(branches, name, backendOk) ==
    IF ~backendOk THEN "false"
    ELSE IF \E b \in branches : ContainsName(b, name) /\ b = name THEN "true"
    ELSE "false"

BranchExistsErrorsAsAbsent(prov, branches, name, backendOk) ==
    IF ~backendOk THEN "false"
    ELSE IF prov = "gitlab"
      THEN GitLabBranchExists(branches, name, backendOk)
      ELSE BitbucketBranchExists(branches, name, backendOk)

BranchExists(prov, branches, name, backendOk) ==
    IF prov = "gitlab"
      THEN GitLabBranchExists(branches, name, backendOk)
      ELSE BitbucketBranchExists(branches, name, backendOk)

\* get_default_branch.  A Branch is its commit_sha (sha), whether its
\* commit_message is empty (message) and holds the signature title (sig), and
\* its committed_at (hasDate: it is not None).  fault: "none", "api" (the
\* branch lookup fails) or "commit" (Bitbucket's separate commit lookup, made
\* when the branch listing names a latest commit, fails and is swallowed).
DegradedBranch ==
    [ok |-> TRUE, sha |-> "", message |-> "", sig |-> FALSE, hasDate |-> FALSE,
     committedAt |-> 0]

RaisedBranch ==
    [ok |-> FALSE, sha |-> "", message |-> "", sig |-> FALSE, hasDate |-> FALSE,
     committedAt |-> 0]

GetDefaultBranchStrict(prov, head, fault) ==
    IF fault # "none" THEN RaisedBranch
    ELSE [ok |-> TRUE, sha |-> head.sha, message |-> head.message, sig |-> head.sig,
          hasDate |-> head.hasDate, committedAt |-> head.committedAt]

GetDefaultBranch(prov, head, fault) ==
    IF fault = "api" THEN RaisedBranch
    ELSE IF prov = "bitbucket_server" /\ head.sha = "" THEN DegradedBranch
    ELSE IF prov = "bitbucket_server" /\ fault = "commit"
      THEN [DegradedBranch EXCEPT !.sha = head.sha]
    ELSE [ok |-> TRUE, sha |-> head.sha, message |-> head.message, sig |-> head.sig,
          hasDate |-> head.hasDate, committedAt |-> head.committedAt]

\* list_open_pull_requests(repo, author, search): the open pull requests by
\* author whose title contains search (GitLab filters on the server,
\* Bitbucket on the client); a backend error propagates
ListOpenPullRequests(prs, author, backendOk) ==
    [ok |-> backendOk,
     prs |-> IF backendOk
               THEN SelectSeq(prs, LAMBDA p : p.author = author /\ p.signed)
               ELSE <<>>]

----------------------------------------------------------------------------
\* CronjobAnalyzeHandler

\* Timestamps (datetime values) count ticks; a day has TicksPerDay of them.
TicksPerDay == 2

\* a datetime that is n whole days and part more ticks before tick 0
Ago(n, part) == 0 - (n * TicksPerDay + part)

\* datetime.now() on calendar date d, as the filter reads it
NowOn(d) == d * TicksPerDay

\* CronjobAnalyzeHandlerConfig.max_days_since_last_commit: Optional[int] = 30
DefaultMaxDays == 30

DefaultConfig == [hasMaxDays |-> TRUE, maxDays |-> DefaultMaxDays]

\* IGNORED_NAMESPACES and IGNORED_REPOSITORIES as the module defines them
IGNORED_NAMESPACES == <<>>

IGNORED_REPOSITORIES == {}

\* config.SCM_GIT_USER_USERNAME, the identity the tool's pull requests carry
ToolUser == "tool"

\* _is_applicable_repository, check by check.  Each check answers "skip"
\* (return False), "raise" (the exception leaves the function) or "pass" (on
\* to the next check).  db, be and prs are what get_default_branch,
\* branch_exists and list_open_pull_requests answer when they are called.
ArchivedCheckSkipped(repo) == "pass"

ArchivedCheck(repo) == IF repo.archived THEN "skip" ELSE "pass"

NamespaceCheck(repo, ignoredNs) ==
    IF IsNamespaceIgnored(repo.namespace, ignoredNs) THEN "skip" ELSE "pass"

IdCheck(repo, ignoredIds) == IF repo.id \in ignoredIds THEN "skip" ELSE "pass"

SignatureCheckSkipped(db) == IF ~db.ok THEN "raise" ELSE "pass"

SignatureCheck(db) ==
    IF ~db.ok THEN "raise" ELSE IF db.sig THEN "skip" ELSE "pass"

\* (datetime.now() - committed_at).days: timedelta.days is the number of
\* whole days of the difference, rounded towards minus infinity
DaysBetween(now, committed_at) == (now - committed_at) \div TicksPerDay

\* days_since_last_commit > max_days_since_last_commit, only when
\* committed_at is set; comparing an int with None raises TypeError
StalenessCheckUnknownIsStale(cfg, now, db) ==
    IF ~db.hasDate THEN "skip"
    ELSE IF ~cfg.hasMaxDays THEN "raise"
    ELSE IF DaysBetween(now, db.committedAt) > cfg.maxDays THEN "skip"
    ELSE "pass"

StalenessCheckInclusive(cfg, now, db) ==
    IF ~db.hasDate THEN "pass"
    ELSE IF ~cfg.hasMaxDays THEN "raise"
    ELSE IF DaysBetween(now, db.committedAt) >= cfg.maxDays THEN "skip"
    ELSE "pass"

StalenessCheck(cfg, now, db) ==
    IF ~db.hasDate THEN "pass"
    ELSE IF ~cfg.hasMaxDays THEN "raise"
    ELSE IF DaysBetween(now, db.committedAt) > cfg.maxDays THEN "skip"
    ELSE "pass"

BranchCheckSkipped(be) == "pass"

BranchCheck(be) ==
    IF be = "raise" THEN "raise" ELSE IF be = "true" THEN "skip" ELSE "pass"

PullRequestCheckSkipped(prs) == "pass"

PullRequestCheck(prs) ==
    IF ~prs.ok THEN "raise" ELSE IF Len(prs.prs) > 0 THEN "skip" ELSE "pass"

\* The verdict ("applicable", "skip", "raise"), the check that decided it and
\* how many backend calls were made (get_default_branch, branch_exists,
\* list_open_pull_requests, in that order).
VerdictErrorsPass(v, why, n) ==
    [verdict |-> IF v = "raise" THEN "applicable" ELSE v, check |-> why, calls |-> n]

Verdict(v, why, n) == [verdict |-> v, check |-> why, calls |-> n]

IsApplicableRepositoryRemoteFirst(repo, ignoredNs, ignoredIds, cfg, now, db, be, prs) ==
    IF SignatureCheck(db) # "pass"
      THEN Verdict(SignatureCheck(db), "signature", 1)
    ELSE IF ArchivedCheck(repo) # "pass"
      THEN Verdict(ArchivedCheck(repo), "archived", 1)
    ELSE IF NamespaceCheck(repo, ignoredNs) # "pass"
      THEN Verdict(NamespaceCheck(repo, ignoredNs), "namespace", 1)
    ELSE IF IdCheck(repo, ignoredIds) # "pass"
      THEN Verdict(IdCheck(repo, ignoredIds), "id", 1)
    ELSE IF StalenessCheck(cfg, now, db) # "pass"
      THEN Verdict(StalenessCheck(cfg, now, db), "stale", 1)
    ELSE IF BranchCheck(be) # "pass"
      THEN Verdict(BranchCheck(be), "branch", 2)
    ELSE IF PullRequestCheck(prs) # "pass"
      THEN Verdict(PullRequestCheck(prs), "open_pr", 3)
    ELSE Verdict("applicable", "none", 3)

IsApplicableRepository(repo, ignoredNs, ignoredIds, cfg, now, db, be, prs) ==
    IF ArchivedCheck(repo) # "pass"
      THEN Verdict(ArchivedCheck(repo), "archived", 0)
    ELSE IF NamespaceCheck(repo, ignoredNs) # "pass"
      THEN Verdict(NamespaceCheck(repo, ignoredNs), "namespace", 0)
    ELSE IF IdCheck(repo, ignoredIds) # "pass"
      THEN Verdict(IdCheck(repo, ignoredIds), "id", 0)
    ELSE IF SignatureCheck(db) # "pass"
      THEN Verdict(SignatureCheck(db), "signature", 1)
    ELSE IF StalenessCheck(cfg, now, db) # "pass"
      THEN Verdict(StalenessCheck(cfg, now, db), "stale", 1)
    ELSE IF BranchCheck(be) # "pass"
      THEN Verdict(BranchCheck(be), "branch", 2)
    ELSE IF PullRequestCheck(prs) # "pass"
      THEN Verdict(PullRequestCheck(prs), "open_pr", 3)
    ELSE Verdict("applicable", "none", 3)

\* handle's except clause: the error is logged and the loop goes on
AfterRepositoryErrorPropagate == "propagate"

AfterRepositoryError == "continue"

\* _handle_repository's finally block: cleanup runs if local_repo is set
CleanupOnlyOnSuccess(local_repo, failed) == local_repo /\ ~failed

CleanupRuns(local_repo, failed) == local_repo

\* str.replace("/", "-")
ReplaceSlash(s) == [k \in 1..Len(s) |-> IF s[k] = "/" THEN "-" ELSE s[k]]

\* _clone_repository's path below working_path: "<name>-<id with / replaced>"
RepoDir(repo) == repo.name \o <<"-">> \o ReplaceSlash(repo.id)

\* _cleanup_repository: close, clear the cache, shutil.rmtree(working_dir)
CleanupRepository(dirs, dir) == dirs \ {dir}

\* The repositories discovery yields: what the model draws them from.
FreshHead ==
    [sha |-> "c1", message |-> "text", sig |-> FALSE, hasDate |-> TRUE,
     committedAt |-> Ago(10, 0)]

SignedHead ==
    [sha |-> "c1", message |-> "text", sig |-> TRUE, hasDate |-> TRUE,
     committedAt |-> Ago(10, 0)]

Profiles ==
    { [archived |-> FALSE, head |-> FreshHead],
      [archived |-> TRUE,  head |-> FreshHead],
      [archived |-> FALSE, head |-> SignedHead] }

PipelineStages == {"clone", "analyze", "commit_push", "open_pr", "cleanup"}

FailedOutcomes ==
    {"failed_filter", "failed_clone_from", "failed_configure", "failed_checkout",
     "failed_analyze", "failed_commit", "failed_push", "failed_pr"}

Ended(i) == pc[i] \in {"done", "raised"}

\* the id the adapter gives the r-th repository of the listing: GitLab's
\* str(project.get_id()), Bitbucket Server's "<project_key>/<slug>"
RepoIdOf(prov, r) ==
    IF prov = "gitlab"
      THEN [k \in 1..r |-> "1"]
      ELSE <<"a", "/">> \o [k \in 1..r |-> "1"]

OrchInit ==
    /\ provider \in Providers
    /\ \E prof \in [Repos -> Profiles] :
        /\ repoList = [r \in Repos |->
                          [id |-> RepoIdOf(provider, r), name |-> <<"a">>,
                           archived |-> prof[r].archived, namespace |-> <<"a">>]]
        /\ remoteDefault = [r \in Repos |-> prof[r].head]
    /\ remoteBranches = [r \in Repos |-> {}]
    /\ remotePRs = [r \in Repos |-> <<>>]
    /\ localDirs = {}
    /\ day = 0
    /\ pc = [i \in Runs |-> "idle"]
    /\ idx = [i \in Runs |-> 1]
    /\ localRepo = [i \in Runs |-> FALSE]
    /\ activeBranch = [i \in Runs |-> GetBranchName(0)]
    /\ lookupFailed = [i \in Runs |-> FALSE]
    /\ outcome = [i \in Runs |-> [r \in Repos |-> "none"]]
    /\ faults = 0

OrchParked ==
    /\ provider = "gitlab"
    /\ repoList = <<>>
    /\ remoteDefault = <<>>
    /\ remoteBranches = <<>>
    /\ remotePRs = <<>>
    /\ localDirs = {}
    /\ day = 0
    /\ pc = <<>>
    /\ idx = <<>>
    /\ localRepo = <<>>
    /\ activeBranch = <<>>
    /\ lookupFailed = <<>>
    /\ outcome = <<>>
    /\ faults = 0

\* handle is invoked; invocations follow one another
StartRun(i) ==
    /\ pc[i] = "idle"
    /\ \A j \in Runs : j # i => (IF j < i THEN Ended(j) ELSE pc[j] = "idle")
    /\ pc' = [pc EXCEPT ![i] = "loop"]
    /\ idx' = [idx EXCEPT ![i] = 1]
    /\ UNCHANGED <<filterVars, nsVars, poolVars, adapterVars, cloneVars, provider, repoList, remoteDefault, remoteBranches, remotePRs,
                   localDirs, day, localRepo, activeBranch, lookupFailed,
                   outcome, faults>>

\* the end of one iteration of handle's loop: on to the next repository, or
\* out of handle with the exception
LeaveRepositoryRetry(i, failed) ==
    /\ pc' = [pc EXCEPT ![i] = "loop"]
    /\ idx' = IF failed THEN idx ELSE [idx EXCEPT ![i] = idx[i] + 1]

LeaveRepository(i, failed) ==
    IF failed /\ AfterRepositoryError # "continue"
      THEN pc' = [pc EXCEPT ![i] = "raised"] /\ idx' = idx
      ELSE pc' = [pc EXCEPT ![i] = "loop"] /\ idx' = [idx EXCEPT ![i] = idx[i] + 1]

\* "await self._handle_repository(repo)": the loop does not go on before the
\* pipeline of this repository has returned or raised
StartHandleRepository(i) ==
    /\ pc' = [pc EXCEPT ![i] = "loop"]
    /\ idx' = [idx EXCEPT ![i] = idx[i] + 1]
    /\ UNCHANGED outcome

AwaitHandleRepository(i) ==
    /\ pc' = [pc EXCEPT ![i] = "clone"]
    /\ UNCHANGED <<idx, outcome>>

\* one iteration of handle's loop up to the call of _handle_repository:
\* _is_applicable_repository with the backend calls it makes
Filter(i) ==
    /\ pc[i] = "loop"
    /\ idx[i] <= Len(repoList)
    /\ \E fd \in {"none", "api", "commit"}, fb \in BOOLEAN, fp \in BOOLEAN :
        LET r == idx[i]
            db == GetDefaultBranch(provider, remoteDefault[r], fd)
            be == BranchExists(provider, remoteBranches[r], GetBranchName(day), fb)
            prs == ListOpenPullRequests(remotePRs[r], ToolUser, fp)
            res == IsApplicableRepository(repoList[r], IGNORED_NAMESPACES,
                                          IGNORED_REPOSITORIES, DefaultConfig,
                                          NowOn(day), db, be, prs)
            nf == (IF fd # "none" THEN 1 ELSE 0) + (IF fb THEN 0 ELSE 1)
                    + (IF fp THEN 0 ELSE 1)
        IN  /\ fd = "commit" => provider = "bitbucket_server"
            /\ fd # "none" => res.calls >= 1
            /\ ~fb => res.calls >= 2
            /\ ~fp => res.calls >= 3
            /\ faults + nf <= MaxFaults
            /\ faults' = faults + nf
            /\ lookupFailed' = [lookupFailed EXCEPT ![i] = ~fb]
            /\ CASE res.verdict = "applicable" -> AwaitHandleRepository(i)
                 [] res.verdict = "skip" ->
                      /\ outcome' = [outcome EXCEPT ![i][r] = res.check]
                      /\ LeaveRepository(i, FALSE)
                 [] res.verdict = "raise" ->
                      /\ outcome' = [outcome EXCEPT ![i][r] = "failed_filter"]
                      /\ LeaveRepository(i, TRUE)
    /\ UNCHANGED <<filterVars, nsVars, poolVars, adapterVars, cloneVars, provider, repoList, remoteDefault, remoteBranches, remotePRs,
                   localDirs, day, localRepo, activeBranch>>

\* _clone_repository, and _handle_repository's finally block when it raises
Clone(i) ==
    /\ pc[i] = "clone"
    /\ LET r == idx[i]
           dir == RepoDir(repoList[r])
       IN \E o \in {"ok", "failed_clone_from", "failed_configure", "failed_checkout"} :
            /\ o # "ok" => faults < MaxFaults
            /\ faults' = IF o = "ok" THEN faults ELSE faults + 1
            /\ IF o = "ok"
                 THEN /\ localDirs' = localDirs \cup {dir}
                      /\ localRepo' = [localRepo EXCEPT ![i] = TRUE]
                      /\ activeBranch' = [activeBranch EXCEPT ![i] = GetBranchName(day)]
                      /\ pc' = [pc EXCEPT ![i] = "analyze"]
                      /\ UNCHANGED <<idx, outcome>>
                 ELSE /\ LET after == IF o = "failed_clone_from"
                                        THEN localDirs \ {dir}
                                        ELSE localDirs \cup {dir}
                         IN localDirs' = IF CleanupRuns(localRepo[i], TRUE)
                                           THEN CleanupRepository(after, dir)
                                           ELSE after
                      /\ outcome' = [outcome EXCEPT ![i][r] = o]
                      /\ LeaveRepository(i, TRUE)
                      /\ UNCHANGED <<localRepo, activeBranch>>
    /\ UNCHANGED <<filterVars, nsVars, poolVars, adapterVars, cloneVars, provider, repoList, remoteDefault, remoteBranches, remotePRs,
                   day, lookupFailed>>

\* _analyze_repository
Analyze(i) ==
    /\ pc[i] = "analyze"
    /\ \E ok \in BOOLEAN :
        /\ ~ok => faults < MaxFaults
        /\ faults' = IF ok THEN faults ELSE faults + 1
        /\ IF ok
             THEN pc' = [pc EXCEPT ![i] = "commit_push"] /\ UNCHANGED outcome
             ELSE /\ pc' = [pc EXCEPT ![i] = "cleanup"]
                  /\ outcome' = [outcome EXCEPT ![i][idx[i]] = "failed_analyze"]
    /\ UNCHANGED <<filterVars, nsVars, poolVars, adapterVars, cloneVars, provider, repoList, remoteDefault, remoteBranches, remotePRs,
                   localDirs, day, idx, localRepo, activeBranch, lookupFailed>>

\* git push origin <branch> -f: a forced push replaces a branch of that name
\* the remote already has; an unforced one would be rejected
PushAcceptedIfNew(branches, branch) == branch \notin branches

PushAccepted(branches, branch) == TRUE

\* _create_pull_request up to the push: git add, git commit, git push -f
CommitPush(i) ==
    /\ pc[i] = "commit_push"
    /\ \E o \in {"ok", "failed_commit", "failed_push"} :
        LET accepted == PushAccepted(remoteBranches[idx[i]], activeBranch[i])
            rejected == o = "failed_push" /\ ~accepted
        IN
        /\ o = "ok" => accepted
        /\ (o # "ok" /\ ~rejected) => faults < MaxFaults
        /\ faults' = IF o = "ok" \/ rejected THEN faults ELSE faults + 1
        /\ IF o = "ok"
             THEN /\ remoteBranches' = [remoteBranches EXCEPT ![idx[i]] =
                                           @ \cup {activeBranch[i]}]
                  /\ pc' = [pc EXCEPT ![i] = "open_pr"]
                  /\ UNCHANGED outcome
             ELSE /\ pc' = [pc EXCEPT ![i] = "cleanup"]
                  /\ outcome' = [outcome EXCEPT ![i][idx[i]] = o]
                  /\ UNCHANGED remoteBranches
    /\ UNCHANGED <<filterVars, nsVars, poolVars, adapterVars, cloneVars, provider, repoList, remoteDefault, remotePRs, localDirs, day,
                   idx, localRepo, activeBranch, lookupFailed>>

\* the rest of _create_pull_request: scm_provider.create_pull_request
OpenPullRequest(i) ==
    /\ pc[i] = "open_pr"
    /\ \E ok \in BOOLEAN :
        /\ ~ok => faults < MaxFaults
        /\ faults' = IF ok THEN faults ELSE faults + 1
        /\ IF ok
             THEN /\ remotePRs' = [remotePRs EXCEPT ![idx[i]] =
                                      Append(@, [author |-> ToolUser, signed |-> TRUE,
                                                 source |-> activeBranch[i],
                                                 titleDay |-> day, by |-> i])]
                  /\ outcome' = [outcome EXCEPT ![i][idx[i]] = "done"]
             ELSE /\ outcome' = [outcome EXCEPT ![i][idx[i]] = "failed_pr"]
                  /\ UNCHANGED remotePRs
        /\ pc' = [pc EXCEPT ![i] = "cleanup"]
    /\ UNCHANGED <<filterVars, nsVars, poolVars, adapterVars, cloneVars, provider, repoList, remoteDefault, remoteBranches, localDirs,
                   day, idx, localRepo, activeBranch, lookupFailed>>

\* _handle_repository's finally block after a clone, and the return to handle
Cleanup(i) ==
    /\ pc[i] = "cleanup"
    /\ LET r == idx[i]
           failed == outcome[i][r] \in FailedOutcomes
       IN /\ localDirs' = IF CleanupRuns(localRepo[i], failed)
                            THEN CleanupRepository(localDirs, RepoDir(repoList[r]))
                            ELSE localDirs
          /\ LeaveRepository(i, failed)
    /\ localRepo' = [localRepo EXCEPT ![i] = FALSE]
    /\ UNCHANGED <<filterVars, nsVars, poolVars, adapterVars, cloneVars, provider, repoList, remoteDefault, remoteBranches, remotePRs,
                   day, activeBranch, lookupFailed, outcome, faults>>

\* the sequence list_repositories yields is exhausted: handle returns
Finish(i) ==
    /\ pc[i] = "loop"
    /\ idx[i] > Len(repoList)
    /\ pc' = [pc EXCEPT ![i] = "done"]
    /\ UNCHANGED <<filterVars, nsVars, poolVars, adapterVars, cloneVars, provider, repoList, remoteDefault, remoteBranches, remotePRs,
                   localDirs, day, idx, localRepo, activeBranch, lookupFailed,
                   outcome, faults>>

----------------------------------------------------------------------------
\* WorkerPool

MaxTasks == 3
MaxWorkers == 2
NCalls == 2

Tasks == 1..MaxTasks
Calls == 1..NCalls

\* __init__: max_workers <= 0 becomes os.cpu_count() or 1
EffectiveWorkersAsGiven(max_workers, cpu_count) == max_workers

EffectiveWorkers(max_workers, cpu_count) ==
    IF max_workers <= 0
      THEN (IF cpu_count = 0 THEN 1 ELSE cpu_count)
      ELSE max_workers

\* asyncio.Semaphore.acquire as "async with self._semaphore" uses it: the
\* caller is admitted at once if a permit is free and nobody is queued
AdmitsAlways(value, waiters) == TRUE

AdmitsNever(value, waiters) == FALSE

Admits(value, waiters) == value > 0 /\ waiters = <<>>

\* asyncio.gather(*wrapped_tasks, return_exceptions=True)
ReturnExceptionsOff == FALSE

ReturnExceptions == TRUE

\* gather puts the outcome of the task at position pos of its argument list
\* into position pos of the result list, whenever the task completes
PendingEntry == [kind |-> "pending", task |-> 0]

GatherStoreInCompletionOrder(results, pos, entry) ==
    LET first == CHOOSE k \in 1..Len(results) :
                     results[k] = PendingEntry /\ \A m \in 1..(k - 1) : results[m] # PendingEntry
    IN  [results EXCEPT ![first] = entry]

GatherStore(results, pos, entry) == [results EXCEPT ![pos] = entry]

TasksOf(c) == {t \in Tasks : taskCall[t] = c}

Running == {t \in Tasks : taskState[t] = "running"}

PoolInit ==
    /\ ctorMaxWorkers \in -1..MaxWorkers
    /\ cpuCount \in 0..MaxWorkers
    /\ maxWorkers = EffectiveWorkers(ctorMaxWorkers, cpuCount)
    /\ semValue = EffectiveWorkers(ctorMaxWorkers, cpuCount)
    /\ semWaiters = <<>>
    /\ taskState = [t \in Tasks |-> "free"]
    /\ taskCall = [t \in Tasks |-> 0]
    /\ taskOutcome = [t \in Tasks |-> "none"]
    /\ callPc = [c \in Calls |-> "idle"]
    /\ callBase = [c \in Calls |-> 0]
    /\ callLen = [c \in Calls |-> 0]
    /\ callResults = [c \in Calls |-> <<>>]
    /\ completions = [c \in Calls |-> <<>>]

\* The semaphore is created once, in __init__; run wraps its tasks with
\* self._semaphore and creates none of its own.
SemaphorePerRun(value, max_workers) == max_workers

SemaphoreAtRun(value, max_workers) == value

\* run(tasks) up to its await: the wrapped coroutines are created in list
\* order and handed to gather.  The tasks of call c are the next m task ids.
RunCall(c) ==
    /\ callPc[c] = "idle"
    /\ \A b \in Calls : b < c => callPc[b] # "idle"
    /\ LET used == Cardinality({t \in Tasks : taskState[t] # "free"})
       IN \E m \in 0..(MaxTasks - used) :
            /\ callBase' = [callBase EXCEPT ![c] = used]
            /\ callLen' = [callLen EXCEPT ![c] = m]
            /\ callResults' = [callResults EXCEPT ![c] = [k \in 1..m |-> PendingEntry]]
            /\ taskState' = [t \in Tasks |->
                                IF t \in (used + 1)..(used + m) THEN "created"
                                ELSE taskState[t]]
            /\ taskCall' = [t \in Tasks |->
                               IF t \in (used + 1)..(used + m) THEN c ELSE taskCall[t]]
    /\ callPc' = [callPc EXCEPT ![c] = "gathering"]
    /\ semValue' = SemaphoreAtRun(semValue, maxWorkers)
    /\ UNCHANGED <<ctorMaxWorkers, cpuCount, maxWorkers, semWaiters,
                   taskOutcome, completions, orchVars, filterVars, nsVars, adapterVars, cloneVars>>

\* _run_with_semaphore reaches "async with self._semaphore"; the event loop
\* starts the coroutines in the order they were created
Enter(t) ==
    /\ taskState[t] = "created"
    /\ \A u \in Tasks : u < t => taskState[u] # "created"
    /\ IF Admits(semValue, semWaiters)
         THEN /\ semValue' = semValue - 1
              /\ taskState' = [taskState EXCEPT ![t] = "running"]
              /\ UNCHANGED semWaiters
         ELSE /\ semWaiters' = Append(semWaiters, t)
              /\ taskState' = [taskState EXCEPT ![t] = "waiting"]
              /\ UNCHANGED semValue
    /\ UNCHANGED <<ctorMaxWorkers, cpuCount, maxWorkers, taskCall, taskOutcome,
                   callPc, callBase, callLen, callResults, completions,
                   orchVars, filterVars, nsVars, adapterVars, cloneVars>>

\* "async with self._semaphore": the block is left through __aexit__, which
\* releases the semaphore, whether "await task()" returned or raised
ReleasesOnReturnOnly(kind) == kind = "ok"

ReleasesOnExit(kind) == kind \in {"ok", "exc"}

\* "await task()" returns or raises: the semaphore is released on the way
\* out of the async with block (the longest waiting task is woken and takes
\* the permit), and gather records the outcome
Complete(t) ==
    /\ taskState[t] = "running"
    /\ \E kind \in {"ok", "exc"} :
        LET c == taskCall[t]
        IN  /\ taskOutcome' = [taskOutcome EXCEPT ![t] = kind]
            /\ callResults' = [callResults EXCEPT ![c] =
                                  GatherStore(@, t - callBase[c],
                                              [kind |-> kind, task |-> t])]
            /\ completions' = [completions EXCEPT ![c] = Append(@, t)]
            /\ callPc' = IF kind = "exc" /\ ~ReturnExceptions /\ callPc[c] = "gathering"
                           THEN [callPc EXCEPT ![c] = "raised"]
                           ELSE callPc
            /\ IF ~ReleasesOnExit(kind)
                 THEN /\ taskState' = [taskState EXCEPT ![t] = "done"]
                      /\ UNCHANGED <<semValue, semWaiters>>
                 ELSE IF semWaiters = <<>>
                 THEN /\ semValue' = semValue + 1
                      /\ taskState' = [taskState EXCEPT ![t] = "done"]
                      /\ UNCHANGED semWaiters
                 ELSE /\ semWaiters' = Tail(semWaiters)
                      /\ taskState' = [taskState EXCEPT ![t] = "done",
                                                        ![Head(semWaiters)] = "running"]
                      /\ UNCHANGED semValue
    /\ UNCHANGED <<ctorMaxWorkers, cpuCount, maxWorkers, taskCall, callBase,
                   callLen, orchVars, filterVars, nsVars, adapterVars, cloneVars>>

\* gather's future resolves once every task has completed: run returns results
Return(c) ==
    /\ callPc[c] = "gathering"
    /\ Len(completions[c]) = callLen[c]
    /\ callPc' = [callPc EXCEPT ![c] = "returned"]
    /\ UNCHANGED <<ctorMaxWorkers, cpuCount, maxWorkers, semValue, semWaiters,
                   taskState, taskCall, taskOutcome, callBase, callLen,
                   callResults, completions, orchVars, filterVars, nsVars, adapterVars, cloneVars>>

PoolParked ==
    /\ ctorMaxWorkers = 1
    /\ cpuCount = 1
    /\ maxWorkers = 1
    /\ semValue = 1
    /\ semWaiters = <<>>
    /\ taskState = <<>>
    /\ taskCall = <<>>
    /\ taskOutcome = <<>>
    /\ callPc = <<>>
    /\ callBase = <<>>
    /\ callLen = <<>>
    /\ callResults = <<>>
    /\ completions = <<>>

----------------------------------------------------------------------------
\* _is_applicable_repository as a function of its inputs: the repository,
\* the ignore lists, the configuration, the date and the backend's answers.

\* last commits 10 days, a tick under 11 days, 30 days, a tick under 31
\* days, 31 days and 45 days before the call
CommitTimes ==
    {Ago(10, 0), Ago(10, TicksPerDay - 1), Ago(30, 0), Ago(30, TicksPerDay - 1),
     Ago(31, 0), Ago(45, 0)}

OpenToolPR == [author |-> ToolUser, signed |-> TRUE, source |-> GetBranchName(0),
               titleDay |-> 0, by |-> 1]

\* a head the backend reports without commit, message and date
EmptyHead ==
    [sha |-> "", message |-> "", sig |-> FALSE, hasDate |-> FALSE, committedAt |-> 0]

FilterHeads ==
    {EmptyHead, SignedHead} \cup {[FreshHead EXCEPT !.committedAt = at] : at \in CommitTimes}

\* The repository, the lists, the configuration; the adapter, the head of
\* the default branch on the backend and how the lookup goes, which give the
\* Branch get_default_branch answers (db); the answers of branch_exists (be)
\* and list_open_pull_requests (prs).
FilterInputs ==
    { x @@ [db |-> GetDefaultBranch(x.prov, x.head, x.fault)] :
        x \in { y \in
                  [ repo : [id : {1}, archived : BOOLEAN,
                            namespace : {<<"a">>, <<"A", "/", "b">>}],
                    ignoredNs : {<<>>, << <<"a">> >>},
                    ignoredIds : {{}, {1}},
                    cfg : {DefaultConfig, [hasMaxDays |-> TRUE, maxDays |-> 10],
                           [hasMaxDays |-> FALSE, maxDays |-> 0]},
                    prov : Providers,
                    head : FilterHeads,
                    fault : {"none", "api", "commit"},
                    be : {"true", "false", "raise"},
                    prs : {[ok |-> FALSE, prs |-> <<>>], [ok |-> TRUE, prs |-> <<>>],
                           [ok |-> TRUE, prs |-> <<OpenToolPR>>]} ] :
                  y.fault = "commit"
                    => (y.prov = "bitbucket_server" /\ y.head.sha # "") } }

FilterInit ==
    /\ filterInput \in FilterInputs
    /\ filterPc = "call"
    /\ filterResult = Verdict("none", "none", 0)

FilterParked ==
    /\ filterInput = <<>>
    /\ filterPc = "returned"
    /\ filterResult = Verdict("none", "none", 0)

ApplyFilter ==
    /\ filterPc = "call"
    /\ filterPc' = "returned"
    /\ filterResult' = IsApplicableRepository(filterInput.repo, filterInput.ignoredNs,
                                              filterInput.ignoredIds, filterInput.cfg, NowOn(0),
                                              filterInput.db, filterInput.be,
                                              filterInput.prs)
    /\ UNCHANGED <<filterInput, orchVars, nsVars, poolVars, adapterVars, cloneVars>>

----------------------------------------------------------------------------
\* Single calls of the SCM provider methods: the arguments, what the backend
\* holds and whether it answers are inputs.

MaxIdLen == 3

\* repository ids as the caller passes them: a digit, a letter, the separator
IdAlphabet == {"1", "a", "/"}

RepoIds == UNION {[1..k -> IdAlphabet] : k \in 0..MaxIdLen}

\* str.split("/", 1): the string itself when it has no separator, else the
\* pieces before and after its first separator
SplitOnce(s) ==
    IF \A k \in 1..Len(s) : s[k] # "/"
      THEN <<s>>
      ELSE LET i == CHOOSE k \in 1..Len(s) :
                       s[k] = "/" /\ \A m \in 1..(k - 1) : s[m] # "/"
           IN  <<SubSeq(s, 1, i - 1), SubSeq(s, i + 1, Len(s))>>

\* project_key, repo_slug = repo.id.split("/", 1): unpacking one piece into
\* two names raises ValueError
UnpacksProjectAndSlug(repo_id) == Len(SplitOnce(repo_id)) = 2

\* how a call ends: it returns a value or raises an error of some kind
Returned(v) == [status |-> "returned", error |-> "none", value |-> v]

Raised(e) == [status |-> "raised", error |-> e, value |-> <<>>]

NoResult == [status |-> "none", error |-> "none", value |-> <<>>]

\* branch_exists(repo, branch_name) as the caller sees it.  GitLab reads the
\* project object the repository carries; Bitbucket Server splits repo.id
\* before its try block.
AdapterBranchExists(prov, repo_id, branches, name, backendOk) ==
    LET be == BranchExists(prov, branches, name, backendOk)
    IN  IF prov = "bitbucket_server" /\ ~UnpacksProjectAndSlug(repo_id)
          THEN Raised("ValueError")
        ELSE IF be = "raise" THEN Raised("backend")
        ELSE Returned(be = "true")

BranchNames ==
    {[date |-> 0, suffix |-> ""], [date |-> 0, suffix |-> "-old"],
     [date |-> 1, suffix |-> ""]}

BranchExistsInputs ==
    [id : RepoIds, branches : SUBSET BranchNames, name : {GetBranchName(0)},
     backendOk : BOOLEAN]

\* get_default_branch(repo) as the caller sees it: Bitbucket Server splits
\* repo.id first; a failed branch lookup leaves the method as an exception
AdapterGetDefaultBranch(prov, repo_id, head, fault) ==
    LET b == GetDefaultBranch(prov, head, fault)
    IN  IF prov = "bitbucket_server" /\ ~UnpacksProjectAndSlug(repo_id)
          THEN Raised("ValueError")
        ELSE IF ~b.ok THEN Raised("backend")
        ELSE Returned(b)

\* what the backend holds for the head of the default branch
Heads ==
    {h \in [sha : {"", "c1"}, message : {"", "text"}, sig : BOOLEAN,
            hasDate : BOOLEAN, committedAt : {Ago(10, 0)}] :
        h.sig => h.message # ""}

DefaultBranchInputs ==
    [id : {<<"a", "/", "a">>, <<"a">>}, head : Heads, fault : {"none", "api", "commit"}]

\* list_open_pull_requests(repo, author=None, search=None).  An optional
\* argument is None or a string; "if author:" is false for None and for "".
MaxListedPRs == 2

None == [given |-> FALSE, text |-> <<>>]

Some(text) == [given |-> TRUE, text |-> text]

Truthy(arg) == arg.given /\ arg.text # <<>>

\* sub in s
Contains(sub, s) ==
    \E i \in 1..(Len(s) - Len(sub) + 1) : SubSeq(s, i, i + Len(sub) - 1) = sub

\* Bitbucket Server: get_pull_requests(state="OPEN") lists the open pull
\* requests; the loop keeps those whose author's name equals author and whose
\* title contains search, both compared in lower case
BitbucketListOpenPullRequests(prs, author, search) ==
    LET keeps(pr) ==
            /\ Truthy(author) => Lower(pr.author) = Lower(author.text)
            /\ Truthy(search) => Contains(Lower(search.text), Lower(pr.title))
    IN  SelectSeq(SelectSeq(prs, LAMBDA pr : pr.open), keeps)

\* GitLab: mergerequests.list(state="opened", author_username=..., search=...)
\* with a keyword only for a truthy argument; the selection is the server's.
\* The merge request API matches author_username against the author's
\* username and search against the title and the description.
GitLabListOpenPullRequests(prs, author, search) ==
    LET serves(mr) ==
            /\ mr.open
            /\ Truthy(author) => Lower(mr.author) = Lower(author.text)
            /\ Truthy(search) =>
                  \/ Contains(Lower(search.text), Lower(mr.title))
                  \/ Contains(Lower(search.text), Lower(mr.description))
    IN  SelectSeq(prs, serves)

AdapterListOpenPullRequests(prov, repo_id, prs, author, search, backendOk) ==
    IF prov = "bitbucket_server" /\ ~UnpacksProjectAndSlug(repo_id)
      THEN Raised("ValueError")
    ELSE IF ~backendOk THEN Raised("backend")
    ELSE IF prov = "gitlab"
      THEN Returned(GitLabListOpenPullRequests(prs, author, search))
    ELSE Returned(BitbucketListOpenPullRequests(prs, author, search))

\* the pull requests of the repository on the backend, open or not
BackendPRs ==
    { [author |-> a, title |-> td[1], description |-> td[2], open |-> o] :
        a \in {<<"A">>, <<"b">>},
        td \in { << <<"a">>, <<>> >>, << <<"A", "b">>, <<>> >>,
                 << <<"b">>, <<"a">> >>, << <<"b">>, <<>> >> },
        o \in BOOLEAN }

ListPRInputs ==
    [id : {<<"a", "/", "a">>},
     prs : UNION {[1..n -> BackendPRs] : n \in 0..MaxListedPRs},
     author : {None, Some(<<>>), Some(<<"a">>)},
     search : {None, Some(<<>>), Some(<<"a">>)},
     backendOk : BOOLEAN]

\* int(repo_id): a non-empty string of digits converts, anything else
\* raises ValueError
IntParses(repo_id) == repo_id # <<>> /\ \A k \in 1..Len(repo_id) : repo_id[k] = "1"

\* the ids the backend resolves: a GitLab project id, a Bitbucket Server
\* project key and repository slug
KnownIds(prov) == IF prov = "gitlab" THEN {<<"1">>} ELSE {<<"a", "/", "a">>}

\* get_repository(repo_id).  GitLab: projects.get(id=int(repo_id)).
\* Bitbucket Server: get_repo(*repo_id.split("/", 1)); its lookup of the
\* default branch cannot fail the call.  The backend answers a request for an
\* id it does not resolve with its not-found error.
AdapterGetRepository(prov, repo_id, backendOk) ==
    IF prov = "gitlab" /\ ~IntParses(repo_id) THEN Raised("ValueError")
    ELSE IF prov = "bitbucket_server" /\ ~UnpacksProjectAndSlug(repo_id)
      THEN Raised("ValueError")
    ELSE IF ~backendOk THEN Raised("backend")
    ELSE IF repo_id \notin KnownIds(prov) THEN Raised("not_found")
    ELSE Returned(repo_id)

GetRepositoryInputs == [id : RepoIds, backendOk : BOOLEAN]

\* URLs and credentials are sequences of characters; "oauth2" and the other
\* fixed user names of the adapters are single symbols.

\* the first position at or after from where s has a character of chars,
\* Len(s) + 1 if there is none
IndexOfAny(s, chars, from) ==
    IF \E k \in from..Len(s) : s[k] \in chars
      THEN CHOOSE k \in from..Len(s) :
               s[k] \in chars /\ \A m \in from..(k - 1) : s[m] \notin chars
      ELSE Len(s) + 1

\* urllib.parse.urlparse(url), the parts the adapters read: the scheme is
\* what precedes the first ":" (letters only) in lower case; after "//" the
\* netloc runs to the next "/", "?" or "#"; the path runs to the next "?" or
\* "#".  Query and fragment are split off and not read.
UrlParse(url) ==
    LET colon == IndexOfAny(url, {":"}, 1)
        hasScheme == /\ 1 < colon /\ colon <= Len(url)
                     /\ \A k \in 1..(colon - 1) : url[k] \in {"a", "A", "b"}
        rest == IF hasScheme THEN SubSeq(url, colon + 1, Len(url)) ELSE url
        hasNetloc == Len(rest) >= 2 /\ rest[1] = "/" /\ rest[2] = "/"
        stop == IndexOfAny(rest, {"/", "?", "#"}, 3)
        after == IF hasNetloc THEN SubSeq(rest, stop, Len(rest)) ELSE rest
    IN  [scheme |-> IF hasScheme THEN Lower(SubSeq(url, 1, colon - 1)) ELSE <<>>,
         netloc |-> IF hasNetloc THEN SubSeq(rest, 3, stop - 1) ELSE <<>>,
         path |-> SubSeq(after, 1, IndexOfAny(after, {"?", "#"}, 1) - 1)]

\* urllib.parse.quote(s, safe=""): letters and digits stay, every other
\* character becomes "%" and its two hexadecimal digits
QuoteChar(c) ==
    CASE c = "@" -> <<"%", "4", "0">>
      [] c = "/" -> <<"%", "2", "F">>
      [] c = ":" -> <<"%", "3", "A">>
      [] OTHER -> <<c>>

RECURSIVE Quote(_)
Quote(s) == IF s = <<>> THEN <<>> ELSE QuoteChar(Head(s)) \o Quote(Tail(s))

\* f"{scheme}://{user}:{secret}@{netloc}{path}"
WithUserInfo(parsed, user, secret) ==
    parsed.scheme \o <<":", "/", "/">> \o user \o <<":">> \o secret \o <<"@">>
      \o parsed.netloc \o parsed.path

\* GitLabProvider.get_authenticated_clone_url: the OAuth token if there is
\* one, else the private token if there is one, else the clone URL as it is
GitLabAuthenticatedCloneUrlPrivateFirst(clone_url, oauth_token, private_token) ==
    IF private_token # <<>>
      THEN WithUserInfo(UrlParse(clone_url), <<"gitlab-ci-token">>, private_token)
    ELSE IF oauth_token # <<>>
      THEN WithUserInfo(UrlParse(clone_url), <<"oauth2">>, oauth_token)
    ELSE clone_url

GitLabAuthenticatedCloneUrl(clone_url, oauth_token, private_token) ==
    IF oauth_token # <<>>
      THEN WithUserInfo(UrlParse(clone_url), <<"oauth2">>, oauth_token)
    ELSE IF private_token # <<>>
      THEN WithUserInfo(UrlParse(clone_url), <<"gitlab-ci-token">>, private_token)
    ELSE clone_url

\* BitbucketServerProvider.get_authenticated_clone_url: the token if there is
\* one, else user name and quoted password if there are both, else the clone
\* URL as it is
BitbucketAuthenticatedCloneUrl(clone_url, token, username, password) ==
    IF token # <<>>
      THEN WithUserInfo(UrlParse(clone_url), <<"x-token-auth">>, token)
    ELSE IF username # <<>> /\ password # <<>>
      THEN WithUserInfo(UrlParse(clone_url), username, Quote(password))
    ELSE clone_url

AdapterAuthenticatedCloneUrl(prov, clone_url, cred) ==
    IF prov = "gitlab"
      THEN Returned(GitLabAuthenticatedCloneUrl(clone_url, cred.oauth_token,
                                                cred.private_token))
      ELSE Returned(BitbucketAuthenticatedCloneUrl(clone_url, cred.token,
                                                   cred.username, cred.password))

\* clone URLs as the backends deliver them: scheme://netloc and a path
CloneUrl(scheme, netloc, path) == scheme \o <<":", "/", "/">> \o netloc \o path

\* a secret or user name; the empty one stands for None as well
Secrets == {<<>>, <<"t">>, <<"t", "@">>, <<"/", ":">>}

NoCredentials ==
    [oauth_token |-> <<>>, private_token |-> <<>>, token |-> <<>>,
     username |-> <<>>, password |-> <<>>]

CredentialsOf(prov) ==
    IF prov = "gitlab"
      THEN {[NoCredentials EXCEPT !.oauth_token = o, !.private_token = p] :
              o \in Secrets, p \in Secrets}
      ELSE {[NoCredentials EXCEPT !.token = t, !.username = u, !.password = p] :
              t \in Secrets, u \in Secrets, p \in Secrets}

CloneUrlParts ==
    [scheme : {<<"a">>, <<"A", "b">>},
     netloc : {<<"h">>, <<"h", ":", "8">>},
     path : {<<>>, <<"/", "p">>, <<"/", "p", "/", "q">>}]

\* an Optional[str] argument of the factory: None, "" or a value
OptionalSecrets == {None, Some(<<>>), Some(<<"t">>)}

\* the provider_type values a caller can pass: the members of
\* SCMProviderType and a string that is none of them
ProviderTypes == {"gitlab", "bitbucket_server", "github"}

FactoryCredentials ==
    [gitlab_oauth_token : OptionalSecrets, gitlab_private_token : OptionalSecrets,
     bitbucket_username : OptionalSecrets, bitbucket_password : OptionalSecrets,
     bitbucket_token : OptionalSecrets]

\* create_scm_provider: the provider it returns, named by its provider_name,
\* or the ValueError it raises
CreateScmProviderUnchecked(provider_type, cred) ==
    IF provider_type \in {"gitlab", "bitbucket_server"}
      THEN Returned(provider_type)
      ELSE Raised("ValueError")

CreateScmProvider(provider_type, cred) ==
    IF provider_type = "gitlab"
      THEN IF ~Truthy(cred.gitlab_oauth_token) /\ ~Truthy(cred.gitlab_private_token)
             THEN Raised("ValueError")
             ELSE Returned("gitlab")
    ELSE IF provider_type = "bitbucket_server"
      THEN IF /\ ~Truthy(cred.bitbucket_token)
              /\ ~(Truthy(cred.bitbucket_username) /\ Truthy(cred.bitbucket_password))
             THEN Raised("ValueError")
             ELSE Returned("bitbucket_server")
    ELSE Raised("ValueError")

\* what is at working_path when the handler is constructed, and whether the
\* process may create directories below its nearest existing parent
WorkingRoots == [at : {"absent", "directory", "file"}, writable : BOOLEAN]

\* CronjobAnalyzeHandler.__init__: working_path.mkdir(parents=True,
\* exist_ok=True) is its last statement; exist_ok accepts a directory only
HandlerInit(root) ==
    IF root.at = "directory" THEN Returned("handler")
    ELSE IF root.at = "file" THEN Raised("FileExistsError")
    ELSE IF root.writable THEN Returned("handler")
    ELSE Raised("PermissionError")

\* CronjobAnalyzeHandlerConfig: namespace_id and the deprecated
\* group_project_id, both Optional[str] with default None
OptionalIds == {None, Some(<<>>), Some(<<"1">>), Some(<<"2">>)}

ConfigArguments == [namespace_id : OptionalIds, group_project_id : OptionalIds]

\* the model validator that runs after the fields are set
HandleDeprecatedGroupProjectIdAliasWins(config) ==
    IF config.group_project_id # None
    THEN [config EXCEPT !.namespace_id = config.group_project_id]
    ELSE config

HandleDeprecatedGroupProjectId(config) ==
    IF config.group_project_id # None
    THEN IF config.namespace_id = None
         THEN [config EXCEPT !.namespace_id = config.group_project_id]
         ELSE config
    ELSE config

\* the namespace handle passes to list_repositories
ListedNamespace(config) == config.namespace_id

AdapterInit ==
    /\ adProvider \in Providers
    /\ adPc = "call"
    /\ adResult = NoResult
    /\ \/ adOp = "branch_exists" /\ adInput \in BranchExistsInputs
       \/ /\ adOp = "get_default_branch"
          /\ adInput \in DefaultBranchInputs
          /\ adInput.fault = "commit"
               => (adProvider = "bitbucket_server" /\ adInput.head.sha # "")
       \/ adOp = "list_open_pull_requests" /\ adInput \in ListPRInputs
       \/ adOp = "get_repository" /\ adInput \in GetRepositoryInputs
       \/ /\ adOp = "get_authenticated_clone_url"
          /\ \E parts \in CloneUrlParts, cred \in CredentialsOf(adProvider) :
                adInput = [parts |-> parts, cred |-> cred]
       \/ /\ adOp = "create_scm_provider"
          /\ \E t \in ProviderTypes, cred \in FactoryCredentials :
                adInput = [provider_type |-> t, cred |-> cred]
       \/ /\ adOp = "handler_init"
          /\ \E root \in WorkingRoots : adInput = [root |-> root]
       \/ adOp = "config_init" /\ adInput \in ConfigArguments

AdapterParked ==
    /\ adProvider = "gitlab"
    /\ adOp = "none"
    /\ adInput = <<>>
    /\ adPc = "returned"
    /\ adResult = NoResult

CallBranchExists ==
    /\ adPc = "call"
    /\ adOp = "branch_exists"
    /\ adPc' = "returned"
    /\ adResult' = AdapterBranchExists(adProvider, adInput.id, adInput.branches,
                                       adInput.name, adInput.backendOk)
    /\ UNCHANGED <<adProvider, adOp, adInput, orchVars, filterVars, nsVars, poolVars, cloneVars>>

----------------------------------------------------------------------------
\* _clone_repository, step by step, for two pipelines that work below the
\* same working_path

MaxNameLen == 3
MaxSlugLen == 3

Pipelines == {1, 2}

NameAlphabet == {"a", "-"}

\* names made of letters and hyphens, with a letter at both ends
Hyphenated(n) ==
    {s \in UNION {[1..k -> NameAlphabet] : k \in 1..n} :
        s[1] # "-" /\ s[Len(s)] # "-"}

RepoNames == Hyphenated(MaxNameLen)

RepoSlugs == Hyphenated(MaxSlugLen)

ProjectKeys == {<<"a">>}

\* the name and id of the Repository values _to_repository builds.  GitLab:
\* project.name and str(project.get_id()).  Bitbucket Server:
\* repo_data["name"] and "<project_key>/<repo_data['slug']>".
DeliveredRepositories(prov) ==
    IF prov = "gitlab"
      THEN {[name |-> n, id |-> i] : n \in RepoNames, i \in {x \in RepoIds : IntParses(x)}}
      ELSE {[name |-> n, id |-> k \o <<"/">> \o sl] :
               n \in RepoNames, k \in ProjectKeys, sl \in RepoSlugs}

\* what is on disk at a path: nothing, the working copy an earlier run left
\* behind, or the working copy pipeline p cloned (on the default branch
\* until the branch of the day is created)
Absent == [exists |-> FALSE, by |-> 0, branch |-> "none"]

StaleCopy == [exists |-> TRUE, by |-> 0, branch |-> "old"]

FreshClone(p) == [exists |-> TRUE, by |-> p, branch |-> "default"]

\* if repo_dir.exists(): shutil.rmtree(repo_dir, ignore_errors=True).  A
\* removal that fails is not reported and leaves the directory.
RemoveTree(content, removed) ==
    IF content.exists /\ removed THEN Absent ELSE content

\* Repo.clone_from(to_path=repo_dir): git refuses to clone into a directory
\* that exists and is not empty
CanCloneIntoExisting(content) == TRUE

CanCloneInto(content) == ~content.exists

CloneInit ==
    /\ wdProvider \in Providers
    /\ wdRepo \in [Pipelines -> DeliveredRepositories(wdProvider)]
    /\ wdRepo[1] # wdRepo[2]
    /\ wdFs \in [{RepoDir(wdRepo[p]) : p \in Pipelines} -> {Absent, StaleCopy}]
    /\ wdPc = [p \in Pipelines |-> "start"]
    /\ wdFound = [p \in Pipelines |-> FALSE]

CloneParked ==
    /\ wdProvider = "gitlab"
    /\ wdRepo = <<>>
    /\ wdFs = <<>>
    /\ wdPc = <<>>
    /\ wdFound = <<>>

\* get_authenticated_clone_url, the path, and the removal of what is there
RemoveExisting(p) ==
    /\ wdPc[p] = "start"
    /\ \E urlOk \in BOOLEAN, removed \in BOOLEAN :
        IF urlOk
          THEN /\ wdFs' = [wdFs EXCEPT ![RepoDir(wdRepo[p])] = RemoveTree(@, removed)]
               /\ wdFound' = [wdFound EXCEPT ![p] = wdFs[RepoDir(wdRepo[p])].exists]
               /\ wdPc' = [wdPc EXCEPT ![p] = "clone_from"]
          ELSE /\ wdPc' = [wdPc EXCEPT ![p] = "raised"]
               /\ UNCHANGED <<wdFs, wdFound>>
    /\ UNCHANGED <<wdProvider, wdRepo, orchVars, filterVars, nsVars, poolVars, adapterVars>>

\* Repo.clone_from(url, to_path=repo_dir, branch=repo.default_branch)
CloneFrom(p) ==
    /\ wdPc[p] = "clone_from"
    /\ \E ok \in BOOLEAN :
        IF ok /\ CanCloneInto(wdFs[RepoDir(wdRepo[p])])
          THEN /\ wdFs' = [wdFs EXCEPT ![RepoDir(wdRepo[p])] = FreshClone(p)]
               /\ wdPc' = [wdPc EXCEPT ![p] = "configure"]
          ELSE /\ wdPc' = [wdPc EXCEPT ![p] = "raised"]
               /\ UNCHANGED wdFs
    /\ UNCHANGED <<wdProvider, wdRepo, wdFound, orchVars, filterVars, nsVars, poolVars, adapterVars>>

\* scm_provider.configure_git_credentials(repo_dir)
ConfigureGitCredentials(p) ==
    /\ wdPc[p] = "configure"
    /\ \E ok \in BOOLEAN :
        wdPc' = [wdPc EXCEPT ![p] = IF ok THEN "checkout" ELSE "raised"]
    /\ UNCHANGED <<wdProvider, wdRepo, wdFs, wdFound, orchVars, filterVars, nsVars, poolVars, adapterVars>>

\* local_repo.git.checkout("-b", branch_name) in the directory at the path,
\* and the return of local_repo: git fails when the directory is gone or the
\* branch exists in it
CheckoutBranch(p) ==
    /\ wdPc[p] = "checkout"
    /\ \E ok \in BOOLEAN :
        LET here == wdFs[RepoDir(wdRepo[p])]
        IN  IF ok /\ here.exists /\ here.branch = "default"
              THEN /\ wdFs' = [wdFs EXCEPT ![RepoDir(wdRepo[p])].branch = "day"]
                   /\ wdPc' = [wdPc EXCEPT ![p] = "cloned"]
              ELSE /\ wdPc' = [wdPc EXCEPT ![p] = "raised"]
                   /\ UNCHANGED wdFs
    /\ UNCHANGED <<wdProvider, wdRepo, wdFound, orchVars, filterVars, nsVars, poolVars, adapterVars>>

InitClone == OrchParked /\ FilterParked /\ NsParked /\ PoolParked /\ AdapterParked /\ CloneInit

NextClone ==
    \/ \E p \in Pipelines : RemoveExisting(p)
    \/ \E p \in Pipelines : CloneFrom(p)
    \/ \E p \in Pipelines : ConfigureGitCredentials(p)
    \/ \E p \in Pipelines : CheckoutBranch(p)

SpecClone == InitClone /\ [][NextClone]_vars

Init == OrchInit /\ FilterParked /\ NsParked /\ PoolParked /\ AdapterParked /\ CloneParked

Next ==
    \/ \E i \in Runs : StartRun(i)
    \/ \E i \in Runs : Filter(i)
    \/ \E i \in Runs : Clone(i)
    \/ \E i \in Runs : Analyze(i)
    \/ \E i \in Runs : CommitPush(i)
    \/ \E i \in Runs : OpenPullRequest(i)
    \/ \E i \in Runs : Cleanup(i)
    \/ \E i \in Runs : Finish(i)

Spec == Init /\ [][Next]_vars

----------------------------------------------------------------------------
\* LiteLLMModel._convert_messages: a conversation (ModelRequest and
\* ModelResponse messages, each a list of parts) becomes a list of entries.
\* A part is its kind; an entry names the message and the part its content
\* was taken from.

MaxMessages == 2
MaxParts == 2

\* ToolReturnPart, SystemPromptPart, UserPromptPart, and RetryPromptPart for
\* the kinds the method has no branch for
RequestPartKinds == {"tool_return", "system", "user", "retry"}

\* TextPart, ToolCallPart, and ThinkingPart for the kinds without a branch
ResponsePartKinds == {"text", "tool_call", "thinking"}

PartLists(kinds) == UNION {[1..n -> kinds] : n \in 0..MaxParts}

ModelMessages ==
    [kind : {"request"}, parts : PartLists(RequestPartKinds)]
      \cup [kind : {"response"}, parts : PartLists(ResponsePartKinds)]

\* the conversations of n messages
Conversations(n) == [1..n -> ModelMessages]

\* the positions of the parts of one of the kinds, in list order
PartsOfKind(parts, kinds) ==
    SelectSeq([k \in 1..Len(parts) |-> k], LAMBDA k : parts[k] \in kinds)

\* {"role": ..., "content": part.content} (and tool_call_id for a tool entry)
PartEntry(role, m, k) ==
    [role |-> role, msg |-> m, part |-> k, content |-> "part", text |-> <<k>>,
     calls |-> <<>>]

RoleOf(kind) ==
    IF kind = "tool_return" THEN "tool" ELSE IF kind = "system" THEN "system" ELSE "user"

\* the branch for a ModelRequest: tool_returns, then other_parts
ConvertRequestInPartOrder(m, parts) ==
    LET kept == PartsOfKind(parts, {"tool_return", "system", "user"})
    IN  [i \in 1..Len(kept) |-> PartEntry(RoleOf(parts[kept[i]]), m, kept[i])]

ConvertRequest(m, parts) ==
    LET tool_returns == PartsOfKind(parts, {"tool_return"})
        other_parts == PartsOfKind(parts, {"system", "user"})
    IN  [i \in 1..Len(tool_returns) |-> PartEntry("tool", m, tool_returns[i])]
          \o [i \in 1..Len(other_parts) |->
                 PartEntry(RoleOf(parts[other_parts[i]]), m, other_parts[i])]

\* the branch for a ModelResponse: one assistant entry; its content is the
\* joined text parts ("text"), None when there are tool calls and no text
\* ("none"), and the key is missing when there is neither ("absent")
ConvertResponse(m, parts) ==
    LET content_parts == PartsOfKind(parts, {"text"})
        tool_calls == PartsOfKind(parts, {"tool_call"})
    IN  << [role |-> "assistant", msg |-> m, part |-> 0,
            content |-> IF content_parts # <<>> THEN "text"
                        ELSE IF tool_calls # <<>> THEN "none"
                        ELSE "absent",
            text |-> content_parts,
            calls |-> tool_calls] >>

\* the loop over the messages, from message m on
RECURSIVE ConvertFrom(_, _)
ConvertFrom(messages, m) ==
    IF m > Len(messages) THEN <<>>
    ELSE (IF messages[m].kind = "request"
            THEN ConvertRequest(m, messages[m].parts)
            ELSE ConvertResponse(m, messages[m].parts))
           \o ConvertFrom(messages, m + 1)

ConvertMessages(messages) == ConvertFrom(messages, 1)

ConvertInit ==
    /\ adProvider = "gitlab"
    /\ adOp = "convert_messages"
    /\ \E n \in 0..MaxMessages : adInput \in Conversations(n)
    /\ adPc = "call"
    /\ adResult = NoResult

CallConvertMessages ==
    /\ adPc = "call"
    /\ adOp = "convert_messages"
    /\ adPc' = "returned"
    /\ adResult' = Returned(ConvertMessages(adInput))
    /\ UNCHANGED <<adProvider, adOp, adInput, orchVars, filterVars, nsVars, poolVars, cloneVars>>

InitConvert == OrchParked /\ FilterParked /\ NsParked /\ PoolParked /\ ConvertInit /\ CloneParked

NextConvert == CallConvertMessages

SpecConvert == InitConvert /\ [][NextConvert]_vars

\* handle over a listing that can fail.  The for statement that draws the
\* repositories from list_repositories stands outside the try block, so an
\* exception of the iterator is not caught by handle.
AfterDiscoveryErrorContinue == "continue"

AfterDiscoveryError == "propagate"

\* the iterator raises instead of yielding the repository at the run's
\* position (or instead of ending, after the last one)
DiscoveryRaises(i) ==
    /\ pc[i] = "loop"
    /\ idx[i] <= Len(repoList) + 1
    /\ faults < MaxFaults
    /\ faults' = faults + 1
    /\ IF AfterDiscoveryError = "propagate"
         THEN pc' = [pc EXCEPT ![i] = "raised"] /\ idx' = idx
         ELSE pc' = pc /\ idx' = [idx EXCEPT ![i] = idx[i] + 1]
    /\ UNCHANGED <<filterVars, nsVars, poolVars, adapterVars, cloneVars, provider, repoList, remoteDefault, remoteBranches, remotePRs,
                   localDirs, day, localRepo, activeBranch, lookupFailed,
                   outcome>>

NextDiscovery ==
    \/ \E i \in Runs : StartRun(i)
    \/ \E i \in Runs : DiscoveryRaises(i)
    \/ \E i \in Runs : Filter(i)
    \/ \E i \in Runs : Clone(i)
    \/ \E i \in Runs : Analyze(i)
    \/ \E i \in Runs : CommitPush(i)
    \/ \E i \in Runs : OpenPullRequest(i)
    \/ \E i \in Runs : Cleanup(i)
    \/ \E i \in Runs : Finish(i)

SpecDiscovery == Init /\ [][NextDiscovery]_vars

InitFilter == OrchParked /\ FilterInit /\ NsParked /\ PoolParked /\ AdapterParked /\ CloneParked

\* two invocations of handle that overlap in time, on a backend and a
\* machine that do not fail
OverlapInit ==
    /\ provider \in Providers
    /\ \E prof \in [Repos -> Profiles] :
        /\ repoList = [r \in Repos |->
                          [id |-> RepoIdOf(provider, r), name |-> <<"a">>,
                           archived |-> prof[r].archived, namespace |-> <<"a">>]]
        /\ remoteDefault = [r \in Repos |-> prof[r].head]
    /\ remoteBranches = [r \in Repos |-> {}]
    /\ remotePRs = [r \in Repos |-> <<>>]
    /\ localDirs = {}
    /\ day = 0
    /\ pc = [i \in Runs |-> "idle"]
    /\ idx = [i \in Runs |-> 1]
    /\ localRepo = [i \in Runs |-> FALSE]
    /\ activeBranch = [i \in Runs |-> GetBranchName(0)]
    /\ lookupFailed = [i \in Runs |-> FALSE]
    /\ outcome = [i \in Runs |-> [r \in Repos |-> "none"]]
    /\ faults = MaxFaults

\* handle is invoked, whatever the other invocation is doing
StartOverlapping(i) ==
    /\ pc[i] = "idle"
    /\ pc' = [pc EXCEPT ![i] = "loop"]
    /\ idx' = [idx EXCEPT ![i] = 1]
    /\ UNCHANGED <<filterVars, nsVars, poolVars, adapterVars, cloneVars, provider, repoList, remoteDefault, remoteBranches, remotePRs,
                   localDirs, day, localRepo, activeBranch, lookupFailed,
                   outcome, faults>>

InitOverlap == OverlapInit /\ FilterParked /\ NsParked /\ PoolParked /\ AdapterParked /\ CloneParked

NextOverlap ==
    \/ \E i \in Runs : StartOverlapping(i)
    \/ \E i \in Runs : Filter(i)
    \/ \E i \in Runs : Clone(i)
    \/ \E i \in Runs : Analyze(i)
    \/ \E i \in Runs : CommitPush(i)
    \/ \E i \in Runs : OpenPullRequest(i)
    \/ \E i \in Runs : Cleanup(i)
    \/ \E i \in Runs : Finish(i)

SpecOverlap == InitOverlap /\ [][NextOverlap]_vars

\* Runs during which the date changes.  _get_branch_name and the title of
\* the pull request each read datetime.now() at the moment they are
\* evaluated; LastDay is the last date the clock reaches.
LastDay == 1

Midnight ==
    /\ day < LastDay
    /\ day' = day + 1
    /\ UNCHANGED <<filterVars, nsVars, poolVars, adapterVars, cloneVars, provider, repoList, remoteDefault, remoteBranches, remotePRs,
                   localDirs, pc, idx, localRepo, activeBranch, lookupFailed,
                   outcome, faults>>

NextMidnight ==
    \/ Midnight
    \/ \E i \in Runs : StartRun(i)
    \/ \E i \in Runs : Filter(i)
    \/ \E i \in Runs : Clone(i)
    \/ \E i \in Runs : Analyze(i)
    \/ \E i \in Runs : CommitPush(i)
    \/ \E i \in Runs : OpenPullRequest(i)
    \/ \E i \in Runs : Cleanup(i)
    \/ \E i \in Runs : Finish(i)

SpecMidnight == InitOverlap /\ [][NextMidnight]_vars

NextFilter == ApplyFilter

SpecFilter == InitFilter /\ [][NextFilter]_vars

InitNs == OrchParked /\ FilterParked /\ NsInit /\ PoolParked /\ AdapterParked /\ CloneParked

NextNs ==
    \/ NsIterate
    \/ NsExhausted

SpecNs == InitNs /\ [][NextNs]_vars

InitPool == OrchParked /\ FilterParked /\ NsParked /\ PoolInit /\ AdapterParked /\ CloneParked

NextPool ==
    \/ \E c \in Calls : RunCall(c)
    \/ \E t \in Tasks : Enter(t)
    \/ \E t \in Tasks : Complete(t)
    \/ \E c \in Calls : Return(c)

SpecPool == InitPool /\ [][NextPool]_vars

\* The pool on an event loop that keeps running: a coroutine that is ready
\* is run (a created task reaches the semaphore, gather's caller resumes
\* when all its tasks are done), and a task that was started returns or
\* raises in the end.  Calls of run are made or not.
PoolFairness ==
    /\ \A t \in Tasks : WF_vars(Enter(t))
    /\ \A t \in Tasks : WF_vars(Complete(t))
    /\ \A c \in Calls : WF_vars(Return(c))

\* a pool constructed with an explicit bound (the default is EffectiveWorkers'
\* business and gives the same bounds)
PoolInitExplicit ==
    /\ PoolInit
    /\ ctorMaxWorkers >= 1
    /\ cpuCount = 1

InitPoolLive == OrchParked /\ FilterParked /\ NsParked /\ PoolInitExplicit /\ AdapterParked /\ CloneParked

SpecPoolLive == InitPoolLive /\ [][NextPool]_vars /\ PoolFairness

CallGetDefaultBranch ==
    /\ adPc = "call"
    /\ adOp = "get_default_branch"
    /\ adPc' = "returned"
    /\ adResult' = AdapterGetDefaultBranch(adProvider, adInput.id, adInput.head,
                                           adInput.fault)
    /\ UNCHANGED <<adProvider, adOp, adInput, orchVars, filterVars, nsVars, poolVars, cloneVars>>

CallListOpenPullRequests ==
    /\ adPc = "call"
    /\ adOp = "list_open_pull_requests"
    /\ adPc' = "returned"
    /\ adResult' = AdapterListOpenPullRequests(adProvider, adInput.id, adInput.prs,
                                               adInput.author, adInput.search,
                                               adInput.backendOk)
    /\ UNCHANGED <<adProvider, adOp, adInput, orchVars, filterVars, nsVars, poolVars, cloneVars>>

CallGetRepository ==
    /\ adPc = "call"
    /\ adOp = "get_repository"
    /\ adPc' = "returned"
    /\ adResult' = AdapterGetRepository(adProvider, adInput.id, adInput.backendOk)
    /\ UNCHANGED <<adProvider, adOp, adInput, orchVars, filterVars, nsVars, poolVars, cloneVars>>

CallGetAuthenticatedCloneUrl ==
    /\ adPc = "call"
    /\ adOp = "get_authenticated_clone_url"
    /\ adPc' = "returned"
    /\ adResult' = AdapterAuthenticatedCloneUrl(
                       adProvider,
                       CloneUrl(adInput.parts.scheme, adInput.parts.netloc,
                                adInput.parts.path),
                       adInput.cred)
    /\ UNCHANGED <<adProvider, adOp, adInput, orchVars, filterVars, nsVars, poolVars, cloneVars>>

CallCreateScmProvider ==
    /\ adPc = "call"
    /\ adOp = "create_scm_provider"
    /\ adPc' = "returned"
    /\ adResult' = CreateScmProvider(adInput.provider_type, adInput.cred)
    /\ UNCHANGED <<adProvider, adOp, adInput, orchVars, filterVars, nsVars, poolVars, cloneVars>>

ConstructHandler ==
    /\ adPc = "call"
    /\ adOp = "handler_init"
    /\ adPc' = "returned"
    /\ adResult' = HandlerInit(adInput.root)
    /\ UNCHANGED <<adProvider, adOp, adInput, orchVars, filterVars, nsVars, poolVars, cloneVars>>

\* CronjobAnalyzeHandlerConfig(...) and the read of the namespace by handle
ConstructConfig ==
    /\ adPc = "call"
    /\ adOp = "config_init"
    /\ adPc' = "returned"
    /\ adResult' = Returned(HandleDeprecatedGroupProjectId(adInput))
    /\ UNCHANGED <<adProvider, adOp, adInput, orchVars, filterVars, nsVars, poolVars, cloneVars>>

InitAdapter == OrchParked /\ FilterParked /\ NsParked /\ PoolParked /\ AdapterInit /\ CloneParked

NextAdapter ==
    \/ CallBranchExists
    \/ CallGetDefaultBranch
    \/ CallListOpenPullRequests
    \/ CallGetRepository
    \/ CallGetAuthenticatedCloneUrl
    \/ CallCreateScmProvider
    \/ ConstructHandler
    \/ ConstructConfig

SpecAdapter == InitAdapter /\ [][NextAdapter]_vars

----------------------------------------------------------------------------
\* Properties of handle, checked under Spec.

\* repository r passes every check on its own fields and on the head of its
\* default branch
FieldsApplicable(r) ==
    /\ ArchivedCheck(repoList[r]) = "pass"
    /\ NamespaceCheck(repoList[r], IGNORED_NAMESPACES) = "pass"
    /\ IdCheck(repoList[r], IGNORED_REPOSITORIES) = "pass"
    /\ ~remoteDefault[r].sig
    /\ StalenessCheck(DefaultConfig, NowOn(day), remoteDefault[r]) = "pass"

\* no earlier invocation left a branch or a pull request of r on the remote
UntouchedBefore(i, r) ==
    \A j \in Runs : j < i => outcome[j][r] \notin {"done", "failed_pr"}

PullRequestBy(i, r) ==
    \E n \in 1..Len(remotePRs[r]) : remotePRs[r][n].by = i

\* C1: failure isolation.  When an invocation of handle has ended, every
\* repository was applicable, the analysis of exactly one repository k raised
\* and nothing else failed, then handle returned normally, every repository
\* was checked and every repository other than k has its pull request.
C1_FailureIsolation ==
    \A i \in Runs : \A k \in Repos :
        ( /\ Ended(i)
          /\ \A r \in Repos : FieldsApplicable(r) /\ UntouchedBefore(i, r)
          /\ outcome[i][k] = "failed_analyze"
          /\ \A r \in Repos \ {k} : outcome[i][r] \notin FailedOutcomes )
        => /\ pc[i] = "done"
           /\ \A r \in Repos : outcome[i][r] # "none"
           /\ \A r \in Repos \ {k} : outcome[i][r] = "done" /\ PullRequestBy(i, r)

\* a middle repository failed in analysis, its neighbours got their pull requests
C1_Witness ==
    \E i \in Runs : \E k \in Repos :
        /\ 1 < k /\ k < NRepos
        /\ pc[i] = "done"
        /\ outcome[i][k] = "failed_analyze"
        /\ \A r \in Repos \ {k} : outcome[i][r] = "done" /\ PullRequestBy(i, r)

\* invocation i leaves _handle_repository in this step
ExitsPipeline(i) == pc[i] \in PipelineStages /\ pc'[i] \notin PipelineStages

C3_CleanupAfterCloneStageFailure ==
    [][\A i \in Runs :
          ( /\ ExitsPipeline(i)
            /\ outcome'[i][idx[i]] \in {"failed_configure", "failed_checkout"} )
          => RepoDir(repoList[idx[i]]) \notin localDirs']_vars

\* invocation i enters _handle_repository in this step
EntersPipeline(i) == pc[i] = "loop" /\ pc'[i] = "clone"

\* C4 as stated: the pipeline is never entered for a repository whose
\* remote has today's branch, whatever the adapter and the backend's answer.
C4_NeverEnteredIfBranchExists ==
    [][\A i \in Runs :
          EntersPipeline(i)
          => GetBranchName(day) \notin remoteBranches[idx[i]]]_vars

\* C4 amended: the pipeline is entered for a repository whose remote has
\* today's branch only on the Bitbucket Server adapter and only when the
\* backend call of branch_exists failed (the adapter then answers False).
C4_EnteredOnlyAfterFailedLookup ==
    [][\A i \in Runs :
          EntersPipeline(i)
          => \/ GetBranchName(day) \notin remoteBranches[idx[i]]
             \/ provider = "bitbucket_server" /\ lookupFailed'[i]]_vars

\* a repository was skipped because today's branch exists
C4_Witness ==
    \E i \in Runs : \E r \in Repos :
        /\ outcome[i][r] = "branch"
        /\ GetBranchName(day) \in remoteBranches[r]

ToolPRs(r) == SelectSeq(remotePRs[r], LAMBDA p : p.author = ToolUser)

\* C5: two invocations on one day.  At every point of two consecutive
\* invocations every repository has at most one analysis branch of the day
\* and at most one open pull request of the tool.
C5_AtMostOneBranchAndPR ==
    \A r \in Repos :
        /\ Cardinality({b \in remoteBranches[r] : b.date = day}) <= 1
        /\ Len(ToolPRs(r)) <= 1

\* both invocations have ended; the first opened a pull request for r and
\* the second skipped r
C5_Witness ==
    /\ Ended(1) /\ Ended(2)
    /\ \E r \in Repos :
        /\ outcome[1][r] = "done"
        /\ outcome[2][r] \in {"branch", "open_pr"}
        /\ Len(ToolPRs(r)) = 1
        /\ Cardinality(remoteBranches[r]) = 1

----------------------------------------------------------------------------
\* Properties of _is_applicable_repository, checked under SpecFilter.

\* C6: for an archived repository the filter returns False, whatever the
\* other fields, the ignore lists, the configuration and the backend answer.
C6_ArchivedNeverApplicable ==
    (filterPc = "returned" /\ filterInput.repo.archived)
    => filterResult.verdict = "skip"

\* an archived repository was refused although every backend call would fail
C6_Witness ==
    /\ filterPc = "returned"
    /\ filterInput.repo.archived
    /\ ~filterInput.db.ok /\ filterInput.be = "raise" /\ ~filterInput.prs.ok
    /\ ~filterInput.cfg.hasMaxDays
    /\ filterResult.verdict = "skip"

----------------------------------------------------------------------------
\* Properties of is_namespace_ignored, checked under SpecNs.

\* C7: is_namespace_ignored returns True exactly when some entry of the list
\* equals, ignoring case, one of the "/"-separated segments of the namespace.
C7_NamespaceIgnoredIff ==
    nsPc = "returned" => (nsResult <=> nsAnyMatch)

\* the second entry matched the second segment in the other case
C7_Witness ==
    /\ nsPc = "returned"
    /\ nsResult
    /\ nsCount = 2
    /\ nsNamespace = <<"b", "/", "A">>
    /\ nsEntry = <<"a">>

----------------------------------------------------------------------------
\* Properties of WorkerPool.run, checked under SpecPool.

\* C8: bounded concurrency.  At every moment at most max_workers tasks are
\* between their admission by the semaphore and their completion.
C8_BoundedConcurrency == Cardinality(Running) <= maxWorkers

\* a call with more tasks than permits: the pool is full and a task waits
C8_Witness ==
    \E c \in Calls :
        /\ callLen[c] > maxWorkers
        /\ Cardinality(Running \cap TasksOf(c)) = maxWorkers
        /\ \E t \in TasksOf(c) : taskState[t] = "waiting"

\* C9: when run has returned, its result has one entry per task and entry k
\* is the outcome (result or exception) of the k-th task of the argument.
C9_ResultsInInputOrder ==
    \A c \in Calls :
        callPc[c] = "returned"
        => /\ Len(callResults[c]) = callLen[c]
           /\ \A k \in 1..callLen[c] :
                 /\ callResults[c][k].task = callBase[c] + k
                 /\ callResults[c][k].kind = taskOutcome[callBase[c] + k]
                 /\ callResults[c][k].kind \in {"ok", "exc"}

\* run returned although a later task completed before an earlier one and
\* the two ended differently
C9_Witness ==
    \E c \in Calls :
        /\ callPc[c] = "returned"
        /\ callLen[c] >= 2
        /\ completions[c][1] > completions[c][2]
        /\ taskOutcome[completions[c][1]] # taskOutcome[completions[c][2]]

\* C10: run ends only by returning, and when it does every task it was
\* given has been started and has finished, whatever its siblings did.
C10_AllTasksComplete ==
    \A c \in Calls :
        callPc[c] \in {"returned", "raised"}
        => /\ callPc[c] = "returned"
           /\ \A t \in TasksOf(c) : taskState[t] = "done" /\ taskOutcome[t] # "none"

\* run returned; a task raised while another was still waiting for a permit,
\* and that one ran and succeeded afterwards
C10_Witness ==
    \E c \in Calls :
        /\ callPc[c] = "returned"
        /\ callLen[c] > maxWorkers
        /\ taskOutcome[completions[c][1]] = "exc"
        /\ taskOutcome[completions[c][callLen[c]]] = "ok"

\* C11: the bound of a pool constructed with max_workers <= 0 is the CPU
\* count, or 1 when os.cpu_count() knows none; a positive max_workers is the
\* bound as given; the bound is at least 1 and is what the semaphore admits.
C11_DefaultBound ==
    /\ maxWorkers >= 1
    /\ ctorMaxWorkers > 0 => maxWorkers = ctorMaxWorkers
    /\ (ctorMaxWorkers <= 0 /\ cpuCount > 0) => maxWorkers = cpuCount
    /\ (ctorMaxWorkers <= 0 /\ cpuCount = 0) => maxWorkers = 1
    /\ semValue + Cardinality(Running) = maxWorkers

\* a pool constructed with a negative max_workers on a machine whose CPU
\* count is unknown runs one task while another waits
C11_Witness ==
    /\ ctorMaxWorkers < 0
    /\ cpuCount = 0
    /\ maxWorkers = 1
    /\ Cardinality(Running) = 1
    /\ semWaiters # <<>>

\* C25: the admission counter is acquired before and released after each
\* task whatever its outcome: whenever no task is executing, in particular
\* once every run call has returned, all max_workers permits are available
\* and no task is left waiting for one.
C25_PermitsBackWhenIdle ==
    Running = {} => (semValue = maxWorkers /\ semWaiters = <<>>)

\* a run call has returned, one of its tasks raised, nothing is executing and
\* the counter is back at the bound
C25_Witness ==
    /\ Running = {}
    /\ \E c \in DOMAIN callPc : callPc[c] = "returned"
    /\ \E t \in DOMAIN taskOutcome : taskOutcome[t] = "exc"
    /\ semValue = maxWorkers

----------------------------------------------------------------------------
\* More properties of _is_applicable_repository, checked under SpecFilter.

\* the call got as far as the staleness check: the repository is not
\* archived, not ignored, and its default branch was read and is unsigned
ReachesStalenessCheck ==
    /\ ~filterInput.repo.archived
    /\ ~(\E k \in 1..Len(filterInput.ignoredNs) :
            MatchesSomeSegment(filterInput.ignoredNs[k], filterInput.repo.namespace))
    /\ filterInput.repo.id \notin filterInput.ignoredIds
    /\ filterInput.db.ok
    /\ ~filterInput.db.sig

\* ticks from the last commit to the call
TicksSinceCommit == NowOn(0) - filterInput.db.committedAt

\* C12: with a threshold T and a known last-commit timestamp, the call ends
\* at the staleness check with False exactly when it gets that far and more
\* than T whole days have passed since the last commit, that is, at least
\* T + 1 days.
C12_StaleExactlyAboveThreshold ==
    (filterPc = "returned" /\ filterInput.cfg.hasMaxDays /\ filterInput.db.hasDate)
    => /\ filterResult.check = "stale"
            <=> ( /\ ReachesStalenessCheck
                  /\ TicksSinceCommit >= (filterInput.cfg.maxDays + 1) * TicksPerDay )
       /\ filterResult.check = "stale" => filterResult.verdict = "skip"

\* T = 30: one call skipped a repository 45 days old as stale ...
C12_Witness ==
    /\ filterPc = "returned"
    /\ filterInput.cfg = DefaultConfig
    /\ filterInput.db.hasDate
    /\ filterInput.db.committedAt = Ago(45, 0)
    /\ filterResult = Verdict("skip", "stale", 1)

\* ... and another let a repository a tick under 31 days old through
C12_WitnessBoundary ==
    /\ filterPc = "returned"
    /\ filterInput.cfg = DefaultConfig
    /\ filterInput.db.committedAt = Ago(30, TicksPerDay - 1)
    /\ filterResult.verdict = "applicable"

\* every check other than the staleness check lets the repository through
OtherChecksPass ==
    /\ ReachesStalenessCheck
    /\ filterInput.be = "false"
    /\ filterInput.prs.ok
    /\ filterInput.prs.prs = <<>>

\* C13: with no threshold configured (max_days_since_last_commit is None) a
\* repository that passes every other check is applicable, whatever the age
\* of its last commit.
C13_NoThresholdExcludesNothing ==
    (filterPc = "returned" /\ ~filterInput.cfg.hasMaxDays /\ OtherChecksPass)
    => filterResult.verdict = "applicable"

----------------------------------------------------------------------------
\* Properties of the SCM provider methods, checked under SpecAdapter.

\* C14: branch_exists never raises; on either adapter, for every repository
\* id and whether or not the backend answers, the call returns, and it
\* returns False when the backend fails.
C14_BranchExistsNeverRaises ==
    (adPc = "returned" /\ adOp = "branch_exists")
    => /\ adResult.status = "returned"
       /\ ~adInput.backendOk => adResult.value = FALSE

\* the request that would deliver the commit's message and date fails:
\* Bitbucket Server's get_commits, GitLab's one and only branches.get
CommitMetadataLookupFails ==
    \/ adProvider = "bitbucket_server" /\ adInput.fault = "commit"
    \/ adProvider = "gitlab" /\ adInput.fault = "api"

ContainsIgnoringCase(sub, s) ==
    \E i \in 1..(Len(s) - Len(sub) + 1) :
        EqualIgnoringCase(sub, SubSeq(s, i, i + Len(sub) - 1))

\* pr is open, by the author asked for and titled as asked for; an argument
\* that is None or empty asks for nothing
MatchesRequest(pr) ==
    /\ pr.open
    /\ Truthy(adInput.author) => EqualIgnoringCase(pr.author, adInput.author.text)
    /\ Truthy(adInput.search) => ContainsIgnoringCase(adInput.search.text, pr.title)

\* C16: when list_open_pull_requests returns, its result is exactly the
\* repository's open pull requests by the given author whose title contains
\* the given substring (case ignored), in the backend's order, on either
\* adapter.
C16_ExactlyTheMatchingOpenPRs ==
    ( /\ adPc = "returned" /\ adOp = "list_open_pull_requests"
      /\ adResult.status = "returned" )
    => adResult.value = SelectSeq(adInput.prs, MatchesRequest)

\* the id has not the form the adapter's ids have: a Bitbucket Server id
\* without "/", a GitLab id that is not a number
Malformed(prov, repo_id) ==
    IF prov = "gitlab"
      THEN repo_id = <<>> \/ \E k \in 1..Len(repo_id) : repo_id[k] \in {"a", "/"}
      ELSE \A k \in 1..Len(repo_id) : repo_id[k] # "/"

\* C17: while the backend answers, get_repository ends with a not-found
\* error, and with nothing else, for every id that is malformed or that the
\* backend does not resolve.
C17_NotFoundForBadIds ==
    ( /\ adPc = "returned" /\ adOp = "get_repository"
      /\ adInput.backendOk
      /\ \/ Malformed(adProvider, adInput.id)
         \/ adInput.id \notin KnownIds(adProvider) )
    => adResult = Raised("not_found")

\* scheme://oauth2:T@host/path, put together from the pieces of the input
OAuthUrl(parts, T) ==
    parts.scheme \o <<":", "/", "/", "oauth2", ":">> \o T \o <<"@">>
      \o parts.netloc \o parts.path

\* s and t differ at most in the case of the first n characters
SameButCaseOfPrefix(s, t, n) ==
    /\ Len(s) = Len(t)
    /\ \A k \in 1..Len(s) : IF k <= n THEN SameLetter(s[k], t[k]) ELSE s[k] = t[k]

\* C18: on GitLab, with OAuth token T and clone URL scheme://host/path,
\* get_authenticated_clone_url returns scheme://oauth2:T@host/path whether or
\* not a private token is configured too: host, path and token are character
\* for character those of the input, and so is the scheme when it is written
\* in lower case (an upper-case scheme comes back in lower case).  With no
\* token at all the clone URL is returned as it is.
C18_OAuthCloneUrl ==
    ( /\ adPc = "returned" /\ adOp = "get_authenticated_clone_url"
      /\ adProvider = "gitlab" )
    => LET parts == adInput.parts
           T == adInput.cred.oauth_token
       IN  /\ adResult.status = "returned"
           /\ T # <<>> =>
                 /\ SameButCaseOfPrefix(adResult.value, OAuthUrl(parts, T),
                                        Len(parts.scheme))
                 /\ (\A k \in 1..Len(parts.scheme) : parts.scheme[k] # "A")
                      => adResult.value = OAuthUrl(parts, T)
           /\ (T = <<>> /\ adInput.cred.private_token = <<>>)
                 => adResult.value = CloneUrl(parts.scheme, parts.netloc, parts.path)

\* both tokens are configured and the URL has a port and a two-segment path:
\* the URL returned carries the OAuth token
C18_Witness ==
    /\ adPc = "returned" /\ adOp = "get_authenticated_clone_url"
    /\ adProvider = "gitlab"
    /\ adInput.cred.oauth_token = <<"t">>
    /\ adInput.cred.private_token = <<"t", "@">>
    /\ adInput.parts = [scheme |-> <<"a">>, netloc |-> <<"h", ":", "8">>,
                        path |-> <<"/", "p", "/", "q">>]
    /\ adResult.value = <<"a", ":", "/", "/", "oauth2", ":", "t", "@",
                          "h", ":", "8", "/", "p", "/", "q">>

\* the user-info component of the URL returned: what stands between "://"
\* and the "@" in front of the input's host
UserInfoOf(url, parts) ==
    SubSeq(url, Len(parts.scheme) + 4,
           Len(url) - Len(parts.netloc) - Len(parts.path) - 1)

Occurrences(s, c) == Cardinality({k \in 1..Len(s) : s[k] = c})

\* some credential is configured that the adapter puts into the URL
HasCredentials ==
    IF adProvider = "gitlab"
      THEN adInput.cred.oauth_token # <<>> \/ adInput.cred.private_token # <<>>
      ELSE \/ adInput.cred.token # <<>>
           \/ adInput.cred.username # <<>> /\ adInput.cred.password # <<>>

\* C19: whatever the adapter and the credentials, the user-info component of
\* the URL returned holds no reserved character of the credentials as it
\* is: no "@", no "/", and no ":" other than the one between user and secret.
C19_CredentialsPercentEncoded ==
    ( /\ adPc = "returned" /\ adOp = "get_authenticated_clone_url"
      /\ HasCredentials )
    => LET info == UserInfoOf(adResult.value, adInput.parts)
       IN  /\ Occurrences(info, "@") = 0
           /\ Occurrences(info, "/") = 0
           /\ Occurrences(info, ":") = 1

----------------------------------------------------------------------------
\* The filter as a whole, checked under SpecFilter.  handle enters the
\* pipeline exactly when _is_applicable_repository returns True.

\* more than the threshold's whole days lie between that commit and the call
StaleAt(committed) ==
    /\ filterInput.cfg.hasMaxDays
    /\ committed.hasDate
    /\ NowOn(0) - committed.committedAt >= (filterInput.cfg.maxDays + 1) * TicksPerDay

\* what the claim asks of the repository's own fields and of the reports of
\* branch_exists and list_open_pull_requests
FieldsAndReportsPass ==
    /\ ~filterInput.repo.archived
    /\ ~(\E k \in 1..Len(filterInput.ignoredNs) :
            MatchesSomeSegment(filterInput.ignoredNs[k], filterInput.repo.namespace))
    /\ filterInput.repo.id \notin filterInput.ignoredIds
    /\ filterInput.be = "false"
    /\ filterInput.prs.ok /\ filterInput.prs.prs = <<>>

\* C20 as stated: the filter returns True only if the repository is not
\* archived and not ignored, the latest commit of its default branch does not
\* carry the signature title and is not older than the threshold, today's
\* branch is reported absent and no open pull request of the tool is reported.
C20_EnteredOnlyIfAllChecksPass ==
    (filterPc = "returned" /\ filterResult.verdict = "applicable")
    => /\ FieldsAndReportsPass
       /\ ~filterInput.head.sig
       /\ ~StaleAt(filterInput.head)

\* C20 amended: the same with the signature and the age taken from the
\* Branch get_default_branch returned; the latest commit itself carries the
\* signature or is too old only when that Branch is degraded, which is on
\* Bitbucket Server after a failed lookup of the commit.
C20_EnteredOnlyIfAllChecksPassAsReported ==
    (filterPc = "returned" /\ filterResult.verdict = "applicable")
    => /\ FieldsAndReportsPass
       /\ filterInput.db.ok
       /\ ~filterInput.db.sig
       /\ ~StaleAt(filterInput.db)
       /\ (filterInput.head.sig \/ StaleAt(filterInput.head))
            => /\ filterInput.prov = "bitbucket_server"
               /\ filterInput.fault = "commit"
               /\ filterInput.db.message = "" /\ ~filterInput.db.hasDate

\* the filter returned True after all three backend calls, for a repository
\* last committed to a tick under 31 days ago
C20_Witness ==
    /\ filterPc = "returned"
    /\ filterResult = Verdict("applicable", "none", 3)
    /\ filterInput.cfg = DefaultConfig
    /\ filterInput.fault = "none"
    /\ filterInput.head.hasDate
    /\ filterInput.head.committedAt = Ago(30, TicksPerDay - 1)
    /\ FieldsAndReportsPass

\* the checks in the order the claim gives them
ChecksInOrder ==
    <<"archived", "namespace", "id", "signature", "stale", "branch", "open_pr">>

\* the positions in ChecksInOrder of the checks that begin with a backend
\* call: get_default_branch, branch_exists, list_open_pull_requests
CallingChecks == {4, 6, 7}

\* check k of ChecksInOrder, taken on its own, would not let the repository
\* through (it would return False, or the call it needs would fail)
WouldFail(k) ==
    CASE k = 1 -> filterInput.repo.archived
      [] k = 2 -> \E n \in 1..Len(filterInput.ignoredNs) :
                     MatchesSomeSegment(filterInput.ignoredNs[n],
                                        filterInput.repo.namespace)
      [] k = 3 -> filterInput.repo.id \in filterInput.ignoredIds
      [] k = 4 -> ~filterInput.db.ok \/ filterInput.db.sig
      [] k = 5 -> /\ filterInput.db.hasDate
                  /\ \/ ~filterInput.cfg.hasMaxDays
                     \/ TicksSinceCommit >= (filterInput.cfg.maxDays + 1) * TicksPerDay
      [] k = 6 -> filterInput.be # "false"
      [] k = 7 -> ~filterInput.prs.ok \/ filterInput.prs.prs # <<>>

\* C21: the filter is ordered and short-circuiting.  The call ends at the
\* first check, in the order archived, namespace, id, signature, staleness,
\* branch, open pull request, that does not let the repository through, and
\* has made only the backend calls of the checks up to that one: none for an
\* archived or ignored repository.  If every check passes it returns True
\* after all three calls.
C21_OrderedShortCircuit ==
    filterPc = "returned"
    => LET failing == {k \in 1..Len(ChecksInOrder) : WouldFail(k)}
       IN  IF failing = {}
             THEN filterResult = Verdict("applicable", "none", 3)
             ELSE LET first == CHOOSE k \in failing : \A m \in failing : k <= m
                  IN  /\ filterResult.verdict \in {"skip", "raise"}
                      /\ filterResult.check = ChecksInOrder[first]
                      /\ filterResult.calls =
                            Cardinality({k \in CallingChecks : k <= first})
                      /\ first <= 3 => filterResult.calls = 0

\* a repository in an ignored namespace whose id is ignored too, whose
\* default branch cannot be read and whose branch and pull request exist: the
\* call ended at the namespace check without a backend call
C21_Witness ==
    /\ filterPc = "returned"
    /\ ~filterInput.repo.archived
    /\ filterInput.repo.id \in filterInput.ignoredIds
    /\ ~filterInput.db.ok
    /\ filterInput.be = "true"
    /\ filterInput.prs.prs # <<>>
    /\ filterResult = Verdict("skip", "namespace", 0)

\* the positions of a run inside _handle_repository
InPipeline(p) == p \in PipelineStages

\* what the stages of one repository's pipeline wait for: each starts where
\* the one before it succeeded, the push has put the branch on the remote
\* before the pull request is asked for, and nothing follows the cleanup
StagesInOrder(i) ==
    /\ pc'[i] = "clone" => pc[i] = "loop"
    /\ pc'[i] = "analyze"
         => /\ pc[i] = "clone"
            /\ RepoDir(repoList[idx[i]]) \in localDirs'
            /\ activeBranch'[i] = GetBranchName(day)
    /\ pc'[i] = "commit_push" => pc[i] = "analyze"
    /\ pc'[i] = "open_pr"
         => /\ pc[i] = "commit_push"
            /\ activeBranch[i] \in remoteBranches'[idx[i]]
    /\ pc'[i] = "cleanup" => pc[i] \in {"analyze", "commit_push", "open_pr"}
    /\ pc[i] = "cleanup" => ~InPipeline(pc'[i])

\* the remote of repository r changes only in the stage that changes it: a
\* branch appears by the push of a run that has analysed and committed, a
\* pull request by the request of a run whose push has succeeded
RemoteChangesInStage(r) ==
    /\ remoteBranches'[r] # remoteBranches[r]
         => \E i \in Runs : /\ pc[i] = "commit_push" /\ idx[i] = r
                            /\ pc'[i] = "open_pr"
    /\ remotePRs'[r] # remotePRs[r]
         => \E i \in Runs : /\ pc[i] = "open_pr" /\ idx[i] = r
                            /\ activeBranch[i] \in remoteBranches[r]

\* the stage order alone, without the statement about the cleanup
C22_StagesOrdered ==
    [][/\ \A i \in Runs : pc'[i] # pc[i] => StagesInOrder(i)
       /\ \A r \in Repos : RemoteChangesInStage(r)]_vars

\* C22: the stages of one repository's pipeline are strictly ordered, clone,
\* branch creation, analysis, commit, push, pull-request creation, cleanup;
\* a stage starts only after the previous one succeeded, and cleanup is the
\* last stage on every path: a run leaves the pipeline only from the cleanup.
C22_StagesOrderedCleanupLast ==
    [][/\ \A i \in Runs :
            pc'[i] # pc[i]
            => /\ StagesInOrder(i)
               /\ InPipeline(pc[i]) /\ ~InPipeline(pc'[i]) => pc[i] = "cleanup"
       /\ \A r \in Repos : RemoteChangesInStage(r)]_vars

\* how far a run is with the repository at its position of the listing
StageRank(p) ==
    CASE p = "loop" -> 0
      [] p = "clone" -> 1
      [] p = "analyze" -> 2
      [] p = "commit_push" -> 3
      [] p = "open_pr" -> 4
      [] p = "cleanup" -> 5

\* C24: no retry within a run.  Every step a run takes with a repository
\* moves it to a later stage of that repository, to the next repository of
\* the listing or out of handle: the filter and every stage are attempted at
\* most once per repository and run, whether the attempt succeeds or fails.
\* One call of create_pull_request adds at most one pull request, and
\* exactly one when it succeeds.
C24_NoRetryWithinRun ==
    [][\A i \in Runs :
          /\ ( (pc[i] = "loop" \/ InPipeline(pc[i])) /\ <<pc[i], idx[i]>>' # <<pc[i], idx[i]>> )
               => \/ /\ idx'[i] = idx[i]
                     /\ InPipeline(pc'[i])
                     /\ StageRank(pc'[i]) > StageRank(pc[i])
                  \/ idx'[i] = idx[i] + 1 /\ pc'[i] = "loop"
                  \/ idx'[i] = idx[i] /\ pc'[i] \in {"done", "raised"}
          /\ outcome'[i] # outcome[i] => <<pc[i], idx[i]>>' # <<pc[i], idx[i]>>
          /\ pc[i] = "open_pr" /\ pc'[i] # "open_pr"
               => Len(remotePRs'[idx[i]]) =
                    Len(remotePRs[idx[i]])
                      + (IF outcome'[i][idx[i]] = "done" THEN 1 ELSE 0)]_vars

\* a run has gone on to a later repository after a push failed, and the
\* repository whose push failed got no pull request
C24_Witness ==
    \E i \in Runs, r \in Repos :
        /\ outcome[i][r] = "failed_push"
        /\ idx[i] > r
        /\ remotePRs[r] = <<>>

\* the argument carries no credential
Missing(arg) == arg = None \/ arg = Some(<<>>)

\* the credentials the provider type needs are not all there
CredentialsMissing(provider_type, cred) ==
    \/ /\ provider_type = "gitlab"
       /\ Missing(cred.gitlab_oauth_token)
       /\ Missing(cred.gitlab_private_token)
    \/ /\ provider_type = "bitbucket_server"
       /\ Missing(cred.bitbucket_token)
       /\ Missing(cred.bitbucket_username) \/ Missing(cred.bitbucket_password)

\* C26: create_scm_provider raises, and so returns no provider, when the
\* credentials its provider type needs are missing or the type is not
\* supported; the handler's constructor raises, and so yields no handler
\* whose handle could run, when the working root cannot be created.
C26_PreconditionFailuresRaise ==
    adPc = "returned"
    => /\ ( /\ adOp = "create_scm_provider"
            /\ \/ CredentialsMissing(adInput.provider_type, adInput.cred)
               \/ adInput.provider_type \notin {"gitlab", "bitbucket_server"} )
          => adResult.status = "raised" /\ adResult.error = "ValueError"
       /\ ( /\ adOp = "handler_init"
            /\ \/ adInput.root.at = "file"
               \/ adInput.root.at = "absent" /\ ~adInput.root.writable )
          => adResult.status = "raised"

\* the factory was asked for a Bitbucket Server provider with a user name
\* and no password or token, and raised
C26_Witness ==
    /\ adPc = "returned"
    /\ adOp = "create_scm_provider"
    /\ adInput.provider_type = "bitbucket_server"
    /\ adInput.cred.bitbucket_username = Some(<<"t">>)
    /\ adInput.cred.bitbucket_password = None
    /\ adInput.cred.bitbucket_token = Some(<<>>)
    /\ adResult.status = "raised"

\* the constructor was called with a file at working_path, and raised
C26_WitnessWorkingRoot ==
    /\ adPc = "returned"
    /\ adOp = "handler_init"
    /\ adInput.root.at = "file"
    /\ adResult.status = "raised"

\* run i is inside handle's loop
InHandle(i) == pc[i] = "loop" \/ InPipeline(pc[i])

\* C27: within one call of handle the repositories are taken one at a time.
\* The repositories before the run's position in the listing are settled
\* (skipped, failed or done), those after it are untouched, and the run is
\* in the filter or the pipeline of the one at its position only; the filter
\* of a repository starts with all earlier ones settled and no working copy
\* held.
C27_OneRepositoryAtATime ==
    \A i \in Runs :
        InHandle(i)
        => /\ pc[i] = "loop" => ~localRepo[i]
           /\ \A r \in Repos :
                 /\ r < idx[i] => outcome[i][r] # "none"
                 /\ r > idx[i] => outcome[i][r] = "none"
                 /\ (r = idx[i] /\ pc[i] = "loop") => outcome[i][r] = "none"

\* a run analyses the second repository of the listing after it has opened
\* a pull request for the first
C27_Witness ==
    \E i \in Runs :
        /\ pc[i] = "analyze"
        /\ idx[i] = 2
        /\ outcome[i][1] = "done"
        /\ \A r \in Repos : r >= 2 => outcome[i][r] = "none"

\* C29: on every adapter branch_exists returns true only when the
\* repository has a branch whose name equals the name asked for, and returns
\* true whenever it has one and the backend answers.
C29_TrueExactlyForEqualName ==
    (adPc = "returned" /\ adOp = "branch_exists" /\ adResult.status = "returned")
    => /\ adResult.value = TRUE => adInput.name \in adInput.branches
       /\ (adInput.name \in adInput.branches /\ adInput.backendOk)
            => adResult.value = TRUE

\* the part of C29 that holds: the Bitbucket Server adapter compares
\* displayId with the name
C29_BitbucketExactName ==
    ( /\ adPc = "returned" /\ adOp = "branch_exists"
      /\ adProvider = "bitbucket_server" /\ adResult.status = "returned" )
    => /\ adResult.value = TRUE => adInput.name \in adInput.branches
       /\ (adInput.name \in adInput.branches /\ adInput.backendOk)
            => adResult.value = TRUE

----------------------------------------------------------------------------
\* Properties of overlapping calls of handle, checked under SpecOverlap.

\* run i takes a step with the repository at its position
StepsOn(i) == <<pc[i], idx[i]>>' # <<pc[i], idx[i]>>

\* C28: no mutual exclusion across runs.  What a run does with a repository
\* depends on the remote only, never on where another run is: it passes the
\* filter when the repository is applicable and the remote has neither the
\* branch of the day nor an open pull request of the tool, its push succeeds
\* also when the other run has pushed that branch already, and it then calls
\* create_pull_request.
C28_NoCrossRunExclusion ==
    [][\A i \in Runs :
          (StepsOn(i) /\ faults' = faults)
          => /\ ( /\ pc[i] = "loop"
                  /\ idx[i] \in Repos
                  /\ FieldsApplicable(idx[i])
                  /\ GetBranchName(day) \notin remoteBranches[idx[i]]
                  /\ ToolPRs(idx[i]) = <<>> )
                => pc'[i] = "clone"
             /\ pc[i] = "commit_push"
                => /\ pc'[i] = "open_pr"
                   /\ activeBranch[i] \in remoteBranches'[idx[i]]
             /\ pc[i] = "open_pr"
                => Len(remotePRs'[idx[i]]) = Len(remotePRs[idx[i]]) + 1]_vars

\* both runs passed the filter for the same repository and pushed the same
\* branch; one has its pull request, the other is about to ask for one
C28_Witness ==
    \E i \in Runs, j \in Runs, r \in Repos :
        /\ i # j
        /\ idx[i] = r /\ pc[i] = "open_pr"
        /\ idx[j] = r /\ pc[j] = "cleanup" /\ outcome[j][r] = "done"
        /\ PullRequestBy(j, r)
        /\ activeBranch[i] = activeBranch[j]
        /\ activeBranch[i] \in remoteBranches[r]

\* both runs are past the filter for the same repository and neither has
\* pushed
C28_WitnessBothPassedFilter ==
    \E r \in Repos :
        /\ \A i \in Runs : idx[i] = r /\ pc[i] \in {"clone", "analyze", "commit_push"}
        /\ remoteBranches[r] = {}

----------------------------------------------------------------------------
\* Properties of _clone_repository, checked under SpecClone.

\* pipeline p has a working copy it cloned and has not released
HoldsWorkingCopy(p) == wdPc[p] \in {"configure", "checkout", "cloned"}

\* C23: working directories never collide.  Two distinct repositories of
\* one backend have distinct paths, and what a pipeline cloned into its
\* directory is there, and is its own, for as long as it works with it.
C23_DirectoriesNeverCollide ==
    \A p \in Pipelines, q \in Pipelines :
        wdRepo[p] # wdRepo[q]
        => /\ RepoDir(wdRepo[p]) # RepoDir(wdRepo[q])
           /\ HoldsWorkingCopy(p)
                => /\ wdFs[RepoDir(wdRepo[p])].exists
                   /\ wdFs[RepoDir(wdRepo[p])].by = p

\* the part of C23 that holds: repositories GitLab delivers, whose ids are
\* decimal numbers, have distinct paths
C23_GitLabDirectoriesDistinct ==
    wdProvider = "gitlab"
    => \A p \in Pipelines, q \in Pipelines :
          wdRepo[p] # wdRepo[q] => RepoDir(wdRepo[p]) # RepoDir(wdRepo[q])

\* no other pipeline works at the path of pipeline p
PathToItself(p) ==
    \A q \in Pipelines \ {p} : RepoDir(wdRepo[q]) # RepoDir(wdRepo[p])

----------------------------------------------------------------------------
\* More properties of WorkerPool, checked under SpecPool.

\* the calls of run that have not returned yet
InProgress == {c \in Calls : callPc[c] = "gathering"}

\* the tasks of call c between admission and completion
ExecutingOf(c) == {t \in Tasks : taskCall[t] = c /\ taskState[t] = "running"}

\* C37: the bound belongs to the pool, not to a call.  While several calls
\* of run are in progress on one pool, the tasks executing over all of them
\* together are at most max_workers, and every one of them holds one of the
\* pool's max_workers permits.
C37_BoundSharedByCalls ==
    LET executing == UNION {ExecutingOf(c) : c \in InProgress}
    IN  /\ Cardinality(executing) <= maxWorkers
        /\ semValue + Cardinality(executing) = maxWorkers

\* two calls in progress, a task of each executing, the pool full and a
\* task waiting for a permit
C37_Witness ==
    /\ InProgress = Calls
    /\ \A c \in Calls : ExecutingOf(c) # {}
    /\ Cardinality(UNION {ExecutingOf(c) : c \in Calls}) = maxWorkers
    /\ \E t \in Tasks : taskState[t] = "waiting"

----------------------------------------------------------------------------
\* Termination of WorkerPool.run, checked under SpecPoolLive.

Admitted(t) == taskState[t] \in {"running", "done"}

\* task t is admitted by the semaphore in this step
AdmittedNow(t) == ~Admitted(t) /\ taskState'[t] = "running"

\* C38: run terminates.  On an event loop that keeps running, with tasks
\* that end once started, every submitted task is admitted in the end and
\* every call of run returns, for every number of tasks and every bound;
\* a call without tasks returns the empty list; a task is admitted only
\* when every task submitted before it has been admitted.
C38_RunTerminates ==
    /\ \A t \in Tasks : (taskState[t] \in {"created", "waiting"}) ~> Admitted(t)
    /\ \A c \in Calls : (callPc[c] = "gathering") ~> (callPc[c] = "returned")
    /\ [](\A c \in Calls :
            callPc[c] = "returned"
            => /\ Len(callResults[c]) = callLen[c]
               /\ \A k \in 1..callLen[c] : callResults[c][k] # PendingEntry)
    /\ [][\A t \in Tasks : \A u \in Tasks :
            (AdmittedNow(t) /\ u < t) => Admitted(u)]_vars

\* a call with more tasks than the pool has permits has returned, every task
\* done, while a call without tasks returned the empty list
C38_Witness ==
    \E c \in Calls, d \in Calls :
        /\ callPc[c] = "returned"
        /\ callLen[c] = MaxTasks
        /\ maxWorkers < MaxTasks
        /\ \A t \in Tasks : taskState[t] = "done"
        /\ callPc[d] = "returned"
        /\ callLen[d] = 0
        /\ callResults[d] = <<>>

----------------------------------------------------------------------------
\* The filter on degraded branch metadata, checked under SpecFilter.

\* get_default_branch answered a Branch with an empty commit message and no
\* commit timestamp
DegradedAnswer ==
    /\ filterInput.db.ok
    /\ filterInput.db.message = ""
    /\ ~filterInput.db.hasDate

\* nothing but the head of the default branch stands in the way
NothingElseInTheWay ==
    /\ ~filterInput.repo.archived
    /\ ~IsNamespaceIgnored(filterInput.repo.namespace, filterInput.ignoredNs)
    /\ filterInput.repo.id \notin filterInput.ignoredIds
    /\ filterInput.be = "false"
    /\ filterInput.prs = [ok |-> TRUE, prs |-> <<>>]

\* C36: degraded branch metadata fails open.  On a Branch with an empty
\* commit message and no commit timestamp neither the signature check nor
\* the staleness check stops the filter, whatever the threshold and whatever
\* the latest commit on the backend is, so the repository enters the
\* pipeline when the other checks pass.
C36_DegradedMetadataFailsOpen ==
    (filterPc = "returned" /\ DegradedAnswer)
    => /\ filterResult.check \notin {"signature", "stale"}
       /\ filterResult.verdict = "raise" => filterResult.calls >= 2
       /\ NothingElseInTheWay => filterResult.verdict = "applicable"

\* a repository whose latest commit is the tool's own entered the pipeline
C36_Witness ==
    /\ filterPc = "returned"
    /\ DegradedAnswer
    /\ filterInput.head.sig
    /\ filterResult.verdict = "applicable"

\* a repository last committed to 45 days ago entered the pipeline under
\* the threshold of 30 days
C36_WitnessStale ==
    /\ filterPc = "returned"
    /\ DegradedAnswer
    /\ filterInput.head.committedAt = Ago(45, 0)
    /\ filterInput.head.hasDate
    /\ filterInput.cfg = DefaultConfig
    /\ filterResult.verdict = "applicable"

----------------------------------------------------------------------------
\* More properties of handle, checked under Spec.

\* the filter of run i raises in this step
FilterRaises(i) ==
    /\ pc[i] = "loop"
    /\ idx[i] \in Repos
    /\ outcome'[i][idx[i]] = "failed_filter"

\* C34: an exception raised while the applicability filter is evaluated is
\* contained like a pipeline failure.  The step in which the filter raises
\* clones nothing, pushes nothing and opens no pull request, and the loop
\* goes on to the next repository; the run never gives that repository a
\* pull request.  On GitLab every failing backend call of the filter raises.
C34_FilterErrorContained ==
    /\ [][\A i \in Runs :
            /\ FilterRaises(i)
                 => /\ pc'[i] = "loop"
                    /\ idx'[i] = idx[i] + 1
                    /\ localDirs' = localDirs
                    /\ remoteBranches' = remoteBranches
                    /\ remotePRs' = remotePRs
            /\ (pc[i] = "loop" /\ provider = "gitlab" /\ faults' > faults)
                 => FilterRaises(i)]_vars
    /\ [](\A i \in Runs : \A r \in Repos :
            outcome[i][r] = "failed_filter" => ~PullRequestBy(i, r))

\* the filter raised for the first repository and the run went on to give
\* the second one its pull request
C34_Witness ==
    \E i \in Runs :
        /\ outcome[i][1] = "failed_filter"
        /\ outcome[i][2] = "done"
        /\ PullRequestBy(i, 2)
        /\ remoteBranches[1] = {}
        /\ pc[i] = "done"

\* run i pushed today's branch of r and create_pull_request raised
PushedWithoutPullRequest(i, r) == outcome[i][r] = "failed_pr"

InPipelineFor(j, r) == idx[j] = r /\ pc[j] \in PipelineStages

\* C35 as stated: after a pipeline that failed when the push had succeeded,
\* no later run of the day enters the pipeline for that repository or opens
\* a pull request for it.
C35_LaterRunsSkip ==
    \A i \in Runs, j \in Runs : \A r \in Repos :
        (i < j /\ PushedWithoutPullRequest(i, r))
        => ~InPipelineFor(j, r) /\ ~PullRequestBy(j, r)

\* C35: after a pipeline that failed when the push had succeeded, a later
\* run of the day whose backend calls succeed skips the repository, and it
\* does so because today's branch exists when the head of the default branch
\* passes the checks made before; a later run enters the pipeline or opens a
\* pull request for it only on Bitbucket Server, after its branch lookup
\* failed.
C35_LaterRunsSkipUnlessLookupFailed ==
    /\ [][\A i \in Runs, j \in Runs : \A r \in Repos :
            ( /\ i < j
              /\ PushedWithoutPullRequest(i, r)
              /\ pc[j] = "loop" /\ idx[j] = r
              /\ faults' = faults )
            => /\ pc'[j] = "loop"
               /\ outcome'[j][r] \in {"signature", "stale", "branch"}
               /\ FieldsApplicable(r) => outcome'[j][r] = "branch"]_vars
    /\ [](\A i \in Runs, j \in Runs : \A r \in Repos :
            (i < j /\ PushedWithoutPullRequest(i, r))
            => /\ InPipelineFor(j, r)
                    => (provider = "bitbucket_server" /\ lookupFailed[j])
               /\ PullRequestBy(j, r) => provider = "bitbucket_server")

\* the second run skipped, for today's branch, the repository the first run
\* had pushed without opening its pull request
C35_Witness ==
    \E r \in Repos :
        /\ PushedWithoutPullRequest(1, r)
        /\ GetBranchName(day) \in remoteBranches[r]
        /\ remotePRs[r] = <<>>
        /\ outcome[2][r] = "branch"

\* on Bitbucket Server the second run opened the pull request after its
\* branch lookup failed
C35_WitnessLookupFailed ==
    \E r \in Repos :
        /\ PushedWithoutPullRequest(1, r)
        /\ PullRequestBy(2, r)
        /\ provider = "bitbucket_server"

----------------------------------------------------------------------------
\* Properties of handle over a listing that can fail, checked under
\* SpecDiscovery.

\* a step of run i at the head of the loop in which something failed, no
\* repository got a verdict and no pipeline was entered: the listing raised
DiscoveryFailsIn(i) ==
    /\ pc[i] = "loop"
    /\ faults' = faults + 1
    /\ outcome' = outcome
    /\ pc'[i] # "clone"

\* C31: an error of discovery is fatal to the run.  When the listing raises,
\* handle is left with the exception at that position; from then on the run
\* takes no step, and the repositories from that position on are never
\* checked or processed by it.
C31_DiscoveryErrorIsFatal ==
    /\ [](\A i \in Runs :
            pc[i] = "raised"
            => \A r \in Repos : r >= idx[i] => outcome[i][r] = "none")
    /\ [][\A i \in Runs :
            /\ DiscoveryFailsIn(i) => (pc'[i] = "raised" /\ idx'[i] = idx[i])
            /\ pc[i] = "raised"
                 => /\ pc'[i] = "raised"
                    /\ idx'[i] = idx[i]
                    /\ outcome'[i] = outcome[i]]_vars

\* the listing raised after the first repository got its pull request: the
\* run has ended and the later repositories are untouched, while another
\* run has started
C31_Witness ==
    \E i \in Runs, j \in Runs :
        /\ pc[i] = "raised"
        /\ idx[i] = 2
        /\ outcome[i][1] = "done"
        /\ \A r \in Repos : r >= 2 => outcome[i][r] = "none"
        /\ pc[j] = "loop"

----------------------------------------------------------------------------
\* Properties of the dates a pipeline uses, checked under SpecMidnight.

\* C32: one pipeline uses one calendar date throughout, also when midnight
\* falls between its steps: the branch a pull request was opened from (the
\* one created after the clone and pushed) carries the date of the pull
\* request's title.
C32_OneDatePerPipeline ==
    \A r \in Repos : \A k \in DOMAIN remotePRs[r] :
        remotePRs[r][k].source.date = remotePRs[r][k].titleDay

\* What the code does give: the branch pushed and named as the source of
\* the pull request is the branch created after the clone, whatever the
\* clock does in between.
C32_PushedBranchIsCreatedBranch ==
    [][\A i \in Runs :
        /\ pc[i] \in {"analyze", "commit_push", "open_pr"}
             => activeBranch'[i] = activeBranch[i]
        /\ (pc[i] = "commit_push" /\ pc'[i] = "open_pr")
             => remoteBranches'[idx[i]] = remoteBranches[idx[i]] \cup {activeBranch[i]}
        /\ (pc[i] = "open_pr" /\ Len(remotePRs'[idx[i]]) > Len(remotePRs[idx[i]]))
             => remotePRs'[idx[i]][Len(remotePRs'[idx[i]])].source = activeBranch[i]]_vars

----------------------------------------------------------------------------
\* Properties of CronjobAnalyzeHandlerConfig, checked under SpecAdapter.

\* C33: the deprecated alias is migrated at construction.  After validation
\* namespace_id is the given namespace_id when one was given and the given
\* group_project_id when only that was given, it stays unset when neither
\* was given, and that field is what handle passes to list_repositories.
C33_AliasMigrated ==
    (adOp = "config_init" /\ adPc = "returned")
    => /\ adResult.status = "returned"
       /\ adInput.namespace_id.given
            => adResult.value.namespace_id = adInput.namespace_id
       /\ (~adInput.namespace_id.given /\ adInput.group_project_id.given)
            => adResult.value.namespace_id = adInput.group_project_id
       /\ (~adInput.namespace_id.given /\ ~adInput.group_project_id.given)
            => ~adResult.value.namespace_id.given
       /\ ListedNamespace(adResult.value) = adResult.value.namespace_id

\* both were given with different values and namespace_id was kept
C33_Witness ==
    /\ adOp = "config_init"
    /\ adPc = "returned"
    /\ adInput.namespace_id = Some(<<"1">>)
    /\ adInput.group_project_id = Some(<<"2">>)
    /\ ListedNamespace(adResult.value) = Some(<<"1">>)

\* only the alias was given and namespace_id took its value
C33_WitnessAliasOnly ==
    /\ adOp = "config_init"
    /\ adPc = "returned"
    /\ adInput.namespace_id = None
    /\ adInput.group_project_id = Some(<<"2">>)
    /\ ListedNamespace(adResult.value) = Some(<<"2">>)

----------------------------------------------------------------------------
\* Properties of LiteLLMModel._convert_messages, checked under SpecConvert.

\* the positions of the output that come from message m
EntriesOf(out, m) == {a \in DOMAIN out : out[a].msg = m}

KeptKinds == {"tool_return", "system", "user"}

\* the claimed output for a ModelResponse: exactly one entry, an assistant
\* one, whose content is None exactly when there are tool calls and no text
OneAssistantEntry(out, m, parts) ==
    LET hasText == \E k \in DOMAIN parts : parts[k] = "text"
        hasCalls == \E k \in DOMAIN parts : parts[k] = "tool_call"
    IN  /\ Cardinality(EntriesOf(out, m)) = 1
        /\ \A a \in EntriesOf(out, m) :
              /\ out[a].role = "assistant"
              /\ (out[a].content = "none") <=> (hasCalls /\ ~hasText)
              /\ (out[a].content = "text") <=> hasText
              /\ \A k \in DOMAIN parts :
                    /\ (\E n \in DOMAIN out[a].text : out[a].text[n] = k)
                         <=> parts[k] = "text"
                    /\ (\E n \in DOMAIN out[a].calls : out[a].calls[n] = k)
                         <=> parts[k] = "tool_call"

\* the claimed output for a ModelRequest: one entry for each tool-return,
\* system and user part and none for any other, the tool results first,
\* each group in the order of the parts
ToolResultsFirst(out, m, parts) ==
    /\ \A k \in DOMAIN parts :
          Cardinality({a \in EntriesOf(out, m) : out[a].part = k})
            = IF parts[k] \in KeptKinds THEN 1 ELSE 0
    /\ \A a \in EntriesOf(out, m) :
          /\ out[a].part \in DOMAIN parts
          /\ out[a].role = (CASE parts[out[a].part] = "tool_return" -> "tool"
                              [] parts[out[a].part] = "system" -> "system"
                              [] OTHER -> "user")
    /\ \A a \in EntriesOf(out, m), b \in EntriesOf(out, m) :
          a < b => /\ ~(out[a].role # "tool" /\ out[b].role = "tool")
                   /\ ((out[a].role = "tool") <=> (out[b].role = "tool"))
                        => out[a].part < out[b].part

\* C39: _convert_messages keeps the messages in order, emits exactly one
\* assistant entry per ModelResponse (content None when it has tool calls
\* and no text), and for a ModelRequest emits its tool results before its
\* system and user entries, each group in its original order; parts of
\* other kinds leave no entry.
C39_ConvertMessagesOrder ==
    (adOp = "convert_messages" /\ adPc = "returned")
    => LET out == adResult.value
       IN  /\ adResult.status = "returned"
           /\ \A a \in DOMAIN out : out[a].msg \in DOMAIN adInput
           /\ \A a \in DOMAIN out, b \in DOMAIN out :
                 a < b => out[a].msg <= out[b].msg
           /\ \A m \in DOMAIN adInput :
                 IF adInput[m].kind = "response"
                   THEN OneAssistantEntry(out, m, adInput[m].parts)
                   ELSE ToolResultsFirst(out, m, adInput[m].parts)

\* a response with only a tool call, then a request whose user prompt
\* stands before its tool result: assistant with content None, tool, user
C39_Witness ==
    /\ adOp = "convert_messages"
    /\ adPc = "returned"
    /\ adInput = << [kind |-> "response", parts |-> <<"thinking", "tool_call">>],
                    [kind |-> "request", parts |-> <<"user", "tool_return">>] >>
    /\ Len(adResult.value) = 3
    /\ adResult.value[1].content = "none"
    /\ adResult.value[2].role = "tool"
    /\ adResult.value[3].role = "user"

====
